---- MODULE Spec2Model ----
(***************************************************************************)
(* Model of the Codex action: the entry point run() (src/index.ts) and the *)
(* streaming execution engine runCodex (src/run-codex.ts).                 *)
(*                                                                         *)
(* A JavaScript string is a sequence of one-character strings, so that     *)
(* trim(), indexOf("\n"), slice() and JSON.parse() are computed, not       *)
(* assumed.  `undefined` is the value Undefined.                           *)
(***************************************************************************)
EXTENDS Integers, Sequences, FiniteSets, TLC

\* ------------------------------------------------------------------ bounds
MaxOut == 3
MaxChunk == 2
MaxArgLen == 4

\* ------------------------------------------------------- strings and values
Undefined == <<"undefined">>

\* an exit code is <<c>> for the number c and Null for a missing code
Null == <<>>
Num(c) == <<c>>

\* characters the main subprocess writes on stdout
OutChars == {"{", "}", "1", "x", " ", "\n"}
\* what String.prototype.trim() strips
WhiteSpace == {" ", "\n"}

\* values of the environment strings OPENAI_API_KEY / INPUT_CHATGPT_AUTH_JSON
EnvStrings == {Undefined, <<>>, <<" ">>, <<"k">>}
\* numeric exit codes a subprocess reports
ExitCodes == {0, 2}
CloseCodes == {Null} \cup {Num(c) : c \in ExitCodes}

SeqsUpTo(S, n) == UNION {[1..k -> S] : k \in 0..n}
NonEmptySeqsUpTo(S, n) == UNION {[1..k -> S] : k \in 1..n}

RECURSIVE TrimStart(_)
TrimStart(s) ==
  IF s = <<>> THEN <<>>
  ELSE IF Head(s) \in WhiteSpace THEN TrimStart(Tail(s)) ELSE s

RECURSIVE TrimEnd(_)
TrimEnd(s) ==
  IF s = <<>> THEN <<>>
  ELSE IF s[Len(s)] \in WhiteSpace THEN TrimEnd(SubSeq(s, 1, Len(s) - 1)) ELSE s

Trim(s) == TrimEnd(TrimStart(s))

\* truthiness of `s?.trim()` for a string or undefined
TruthyTrim(s) == s # Undefined /\ Trim(s) # <<>>

\* String.prototype.indexOf("\n"), 1-based, 0 when absent (JavaScript: -1)
IndexOfNewline(s) ==
  IF \E i \in 1..Len(s) : s[i] = "\n"
  THEN CHOOSE i \in 1..Len(s) : s[i] = "\n" /\ \A j \in 1..(i - 1) : s[j] # "\n"
  ELSE 0

\* ------------------------------------------------------ prepareRunConfig
\* An argument string is a sequence of lexical pieces; a token is the
\* sequence of the adjacent pieces it is made of (<<"--json", "=", "x">> is
\* the token --json=x).
ArgPieces == {" ", "|", "--json", "=", "x", "-"}
ArgOperators == {"|"}
ArgBlank == {" "}

StringEntry(tok) == [isString |-> TRUE, text |-> tok]
OperatorEntry(op) == [isString |-> FALSE, text |-> <<op>>]

\* shell-quote parse(): words are split at blanks, a control operator is an
\* entry of its own that is not a string
RECURSIVE ParseFrom(_, _, _)
ParseFrom(s, cur, acc) ==
  LET flushed == IF cur = <<>> THEN acc ELSE Append(acc, StringEntry(cur))
  IN  IF s = <<>> THEN flushed
      ELSE IF Head(s) \in ArgBlank THEN ParseFrom(Tail(s), <<>>, flushed)
      ELSE IF Head(s) \in ArgOperators
           THEN ParseFrom(Tail(s), <<>>, Append(flushed, OperatorEntry(Head(s))))
      ELSE ParseFrom(Tail(s), Append(cur, Head(s)), acc)

parseShellArgs(s) == ParseFrom(s, <<>>, <<>>)

\* parsed.filter((arg) => typeof arg === "string")
RECURSIVE FilterStrings(_)
FilterStrings(parsed) ==
  IF parsed = <<>> THEN <<>>
  ELSE IF Head(parsed).isString
       THEN <<Head(parsed).text>> \o FilterStrings(Tail(parsed))
       ELSE FilterStrings(Tail(parsed))

JsonFlag == <<"--json">>
StdinMarker == <<"-">>
ExecToken == <<"exec">>

\* arg === flag || arg.startsWith(`${flag}=`)
MatchesFlag(arg, flag) ==
  \/ arg = flag
  \/ /\ Len(arg) > Len(flag)
     /\ SubSeq(arg, 1, Len(flag)) = flag
     /\ arg[Len(flag) + 1] = "="

hasArgument(args, flag) == \E i \in 1..Len(args) : MatchesFlag(args[i], flag)

\* the argument string is blank: options.codexArgs?.trim() is falsy
BlankArgs(s) == s = Undefined \/ \A i \in 1..Len(s) : s[i] \in ArgBlank

customArgs(s) == IF BlankArgs(s) THEN <<>> ELSE FilterStrings(parseShellArgs(s))

\* mutant: --json is appended without looking at the user's tokens
WithJsonAlways(args) == Append(args, JsonFlag)

WithJson(args) == IF hasArgument(args, JsonFlag) THEN args ELSE Append(args, JsonFlag)

WithStdin(args) ==
  IF \E i \in 1..Len(args) : args[i] = StdinMarker THEN args ELSE Append(args, StdinMarker)

\* mutant: the stdin marker is appended before the structured-output flag
prepareRunConfigStdinFirst(s) == WithJson(WithStdin(<<ExecToken>> \o customArgs(s)))

prepareRunConfig(s) == WithStdin(WithJson(<<ExecToken>> \o customArgs(s)))

\* ------------------------------------------------------------- handleLine
TextEvent(t) == [kind |-> "object", type |-> "text", value |-> t]
JsonObject == [kind |-> "object", type |-> "undefined", value |-> <<>>]
JsonNumber(t) == [kind |-> "number", type |-> "undefined", value |-> t]

\* JSON.parse accepts the text: here an empty object {} (blanks allowed
\* between the braces) or a number written with the digit 1
IsObjectText(t) ==
  /\ Len(t) >= 2
  /\ t[1] = "{"
  /\ t[Len(t)] = "}"
  /\ \A i \in 2..(Len(t) - 1) : t[i] = " "

IsNumberText(t) == Len(t) >= 1 /\ \A i \in 1..Len(t) : t[i] = "1"

JsonParses(t) == IsObjectText(t) \/ IsNumberText(t)

JsonParse(t) == IF IsObjectText(t) THEN JsonObject ELSE JsonNumber(t)

handleLine(evts, line) ==
  LET trimmed == Trim(line)
  IN  IF trimmed = <<>> THEN evts
      ELSE IF JsonParses(trimmed) THEN Append(evts, JsonParse(trimmed))
      ELSE Append(evts, TextEvent(trimmed))

\* ------------------------------------------------------------ flushBuffer
RECURSIVE DrainLines(_, _)
\* mutant: an if in the place of the while, one line per call
DrainLinesOnce(buf, evts) ==
  LET newlineIndex == IndexOfNewline(buf)
  IN  IF newlineIndex = 0 THEN [buffer |-> buf, events |-> evts]
      ELSE [buffer |-> SubSeq(buf, newlineIndex + 1, Len(buf)),
            events |-> handleLine(evts, SubSeq(buf, 1, newlineIndex - 1))]
\* the while loop of flushBuffer: one line per newline found
DrainLines(buf, evts) ==
  LET newlineIndex == IndexOfNewline(buf)
  IN  IF newlineIndex = 0 THEN [buffer |-> buf, events |-> evts]
      ELSE DrainLines(SubSeq(buf, newlineIndex + 1, Len(buf)),
                      handleLine(evts, SubSeq(buf, 1, newlineIndex - 1)))

\* mutant: the content after the last newline is dropped at the end
FinalFlushDrops(st) == [buffer |-> <<>>, events |-> st.events]

\* mutant: the final flush handles the buffer and leaves it as it is
FinalFlushKeepsBuffer(st) ==
  IF Len(st.buffer) > 0
  THEN [buffer |-> st.buffer, events |-> handleLine(st.events, st.buffer)]
  ELSE st

FinalFlush(st) ==
  IF Len(st.buffer) > 0
  THEN [buffer |-> <<>>, events |-> handleLine(st.events, st.buffer)]
  ELSE st

flushBuffer(buf, evts, isFinal) ==
  IF isFinal THEN FinalFlush(DrainLines(buf, evts)) ELSE DrainLines(buf, evts)

\* `${JSON.stringify(events, null, 2)}\n`
Serialize(evts) == [array |-> evts, trailingNewline |-> TRUE]

\* code ?? 0
CodeOrZero(code) == IF code = Null THEN 0 ELSE code[1]

\* ------------------------------------------------------------------ state
VARIABLES
  apiKey,        \* process.env.OPENAI_API_KEY
  chatgptAuth,   \* process.env.INPUT_CHATGPT_AUTH_JSON
  codexArgs,     \* process.env.INPUT_CODEX_ARGS
  pc,            \* where run() / runCodex() is suspended
  stages,        \* the stages run() has called, in order
  spawned,       \* the subprocesses spawned, in order
  loginProc,     \* the login subprocess
  loginCode,     \* the code the 'close' event of the login subprocess carried
  mainProc,      \* the main subprocess
  config,        \* config.codexArgs, the argv of the main subprocess
  emitted,       \* everything the main subprocess wrote on stdout so far
  buffer,        \* runCodex: let buffer
  events,        \* runCodex: const events
  exitCode,      \* what the termination promise resolved with
  resolvedBy,    \* the handler that resolved the termination promise
  closeCode,     \* the code the 'close' event of the main subprocess carried
  logContent,    \* the text handed to writeFile
  fileContent,   \* the content of EXECUTION_FILE
  writes,        \* how many times EXECUTION_FILE was written
  warnings,      \* core.warning calls
  outputs,       \* core.setOutput calls, in order
  runCodexResult,\* how runCodex ended
  failedMsg,     \* core.setFailed message
  exitStatus,    \* process.exit status
  callArgs,      \* the arguments of the library function that is called
  returned,      \* what the library function returned or threw
  heap,          \* the objects there are, an object reference is an index
  files,         \* the files setupCodexConfig and preparePrompt read and write
  streams        \* runCodex: the prompt stream and the stdin and stdout of the main subprocess

envVars == <<apiKey, chatgptAuth, codexArgs>>
procVars == <<spawned, loginProc, loginCode, mainProc, config>>
streamVars == <<emitted, buffer, events>>
endVars == <<exitCode, resolvedBy, closeCode, logContent>>
fileVars == <<fileContent, writes, warnings>>
resultVars == <<outputs, runCodexResult, failedMsg, exitStatus>>
callVars == <<callArgs, returned, heap, files, streams>>
vars == <<envVars, pc, stages, procVars, streamVars, endVars, fileVars, resultVars, callVars>>

\* one core.setOutput call and the function that made it
Output(name, value, by) == [name |-> name, value |-> value, by |-> by]

Error(text, code) == [text |-> text, code |-> code]
NoError == Error("", Null)

\* how runCodex ended: still running, returned, or threw an error
Pending == [state |-> "pending", error |-> NoError]
Returned == [state |-> "returned", error |-> NoError]
Threw(error) == [state |-> "threw", error |-> error]

NoFailure == [text |-> "", error |-> NoError]

\* what a previous invocation left at EXECUTION_FILE
NoLog == [array |-> <<>>, trailingNewline |-> FALSE]
PriorLog == [array |-> <<TextEvent(<<"stale">>)>>, trailingNewline |-> TRUE]

\* argument strings the whole-run specification draws from
RunArgStrings == {<<>>, <<"x", " ", "-">>}

\* no prompt stream was created and no subprocess has a stdin or a stdout
NoStreams == [prompt |-> "none", unread |-> 0, stdin |-> "none", written |-> 0,
              stdout |-> "none", logged |-> <<>>]

InitRest ==
  /\ streams = NoStreams
  /\ stages = <<>>
  /\ spawned = <<>>
  /\ loginProc = "none"
  /\ loginCode = Null
  /\ mainProc = "none"
  /\ config = <<>>
  /\ emitted = <<>>
  /\ buffer = <<>>
  /\ events = <<>>
  /\ exitCode = Null
  /\ resolvedBy = "none"
  /\ closeCode = Null
  /\ logContent = NoLog
  /\ fileContent = PriorLog
  /\ writes = 0
  /\ warnings = 0
  /\ outputs = <<>>
  /\ runCodexResult = Pending
  /\ failedMsg = NoFailure
  /\ exitStatus = Null

NoCall ==
  /\ callArgs = <<>>
  /\ returned = <<>>
  /\ heap = <<>>
  /\ files = <<>>

Init ==
  /\ apiKey \in EnvStrings
  /\ chatgptAuth \in EnvStrings
  /\ codexArgs \in RunArgStrings
  /\ pc = "validateEnvironmentVariables"
  /\ InitRest
  /\ NoCall

\* mutant: the catch block reports the failure but does not end the process
CatchNoExit(error, outs) ==
  /\ failedMsg' = [text |-> "Action failed with error", error |-> error]
  /\ outputs' = Append(outs, Output("conclusion", "failure", "run"))
  /\ exitStatus' = exitStatus
  /\ pc' = "exited"

\* the catch block of run(): setFailed, conclusion = failure, process.exit(1)
Catch(error, outs) ==
  /\ failedMsg' = [text |-> "Action failed with error", error |-> error]
  /\ outputs' = Append(outs, Output("conclusion", "failure", "run"))
  /\ exitStatus' = Num(1)
  /\ pc' = "exited"

\* process.exit has not been called
Alive == exitStatus = Null

\* ------------------------------------------------------- the stages of run()
ValidateEnvironmentVariables ==
  /\ pc = "validateEnvironmentVariables"
  /\ stages' = Append(stages, "validateEnvironmentVariables")
  /\ IF TruthyTrim(apiKey) \/ TruthyTrim(chatgptAuth)
     THEN /\ pc' = "setupCodexConfig"
          /\ UNCHANGED <<outputs, failedMsg, exitStatus>>
     ELSE Catch(Error("Provide either OPENAI_API_KEY or chatgpt_auth_json", Null), outputs)
  /\ UNCHANGED <<callVars, envVars, procVars, streamVars, endVars, fileVars, runCodexResult>>

\* setupCodexConfig: its file reads, decoding and write succeed or throw
SetupCodexConfig ==
  /\ pc = "setupCodexConfig"
  /\ stages' = Append(stages, "setupCodexConfig")
  /\ \E ok \in BOOLEAN :
       IF ok
       THEN /\ pc' = "setupCodexAuth"
            /\ UNCHANGED <<outputs, failedMsg, exitStatus>>
       ELSE Catch(Error("Failed to process config input", Null), outputs)
  /\ UNCHANGED <<callVars, envVars, procVars, streamVars, endVars, fileVars, runCodexResult>>

\* setupCodexAuth: returns at once for a blank input, else writes auth.json
SetupCodexAuth ==
  /\ pc = "setupCodexAuth"
  /\ stages' = Append(stages, "setupCodexAuth")
  /\ \E ok \in BOOLEAN :
       IF ok \/ ~TruthyTrim(chatgptAuth)
       THEN /\ pc' = "preparePrompt"
            /\ UNCHANGED <<outputs, failedMsg, exitStatus>>
       ELSE Catch(Error("Authentication setup failed", Null), outputs)
  /\ UNCHANGED <<callVars, envVars, procVars, streamVars, endVars, fileVars, runCodexResult>>

\* preparePrompt: validates the prompt inputs and returns the prompt path
PreparePrompt ==
  /\ pc = "preparePrompt"
  /\ stages' = Append(stages, "preparePrompt")
  /\ \E ok \in BOOLEAN :
       IF ok
       THEN /\ pc' = "runCodex"
            /\ UNCHANGED <<outputs, failedMsg, exitStatus>>
       ELSE Catch(Error("Prompt is empty", Null), outputs)
  /\ UNCHANGED <<callVars, envVars, procVars, streamVars, endVars, fileVars, runCodexResult>>

\* ---------------------------------------------------------------- runCodex
\* runCodex up to its first await: prepareRunConfig, then the login
\* subprocess when the API key is not blank
RunCodexStart ==
  /\ pc = "runCodex"
  /\ stages' = Append(stages, "runCodex")
  /\ config' = prepareRunConfig(codexArgs)
  /\ IF TruthyTrim(apiKey)
     THEN /\ spawned' = Append(spawned, "login")
          /\ \E ok \in BOOLEAN : loginProc' = IF ok THEN "running" ELSE "spawnfail"
          /\ pc' = "login"
     ELSE /\ pc' = "stat"
          /\ UNCHANGED <<spawned, loginProc>>
  /\ UNCHANGED <<callVars, envVars, loginCode, mainProc, streamVars, endVars, fileVars, resultVars>>

\* loginProcess.on("error")
LoginError ==
  /\ Alive
  /\ loginProc = "spawnfail"
  /\ loginProc' = "errored"
  /\ runCodexResult' = Threw(Error("Failed to spawn codex login", Null))
  /\ Catch(runCodexResult'.error, outputs)
  /\ UNCHANGED <<callVars, envVars, stages, spawned, loginCode, mainProc, config, streamVars, endVars, fileVars>>

\* mutant: the login's exit code is not looked at
LoginCloseAnyCode(code) ==
  /\ Alive
  /\ loginProc = "running"
  /\ loginProc' = "closed"
  /\ loginCode' = code
  /\ pc' = "stat"
  /\ UNCHANGED <<callVars, envVars, stages, spawned, mainProc, config, streamVars, endVars, fileVars,
                 resultVars>>

\* loginProcess.on("close")
LoginClose(code) ==
  /\ Alive
  /\ loginProc = "running"
  /\ loginProc' = "closed"
  /\ loginCode' = code
  /\ IF code = Num(0)
     THEN /\ pc' = "stat"
          /\ UNCHANGED resultVars
     ELSE /\ runCodexResult' = Threw(Error("codex login failed with exit code", code))
          /\ Catch(runCodexResult'.error, outputs)
  /\ UNCHANGED <<callVars, envVars, stages, spawned, mainProc, config, streamVars, endVars, fileVars>>

\* after the login and the stat of the prompt file: spawn the main subprocess
\* and attach the handlers.  The spawn succeeds (stdout data, then 'close')
\* or fails ('error', then possibly 'close'): runCodex never kills the
\* subprocess nor sends to it, so 'error' is a spawn failure.
SpawnMain ==
  /\ pc = "stat"
  /\ spawned' = Append(spawned, "main")
  /\ \E ok \in BOOLEAN : mainProc' = IF ok THEN "running" ELSE "spawnfail"
  /\ buffer' = <<>>
  /\ events' = <<>>
  /\ pc' = "running"
  /\ UNCHANGED <<callVars, envVars, stages, loginProc, loginCode, config, emitted, endVars, fileVars, resultVars>>

\* codexProcess.stdout.on("data")
StdoutData(chunk) ==
  /\ Alive
  /\ mainProc = "running"
  /\ Len(emitted) + Len(chunk) <= MaxOut
  /\ emitted' = emitted \o chunk
  /\ LET st == flushBuffer(buffer \o chunk, events, FALSE)
     IN  /\ buffer' = st.buffer
         /\ events' = st.events
  /\ UNCHANGED <<callVars, envVars, pc, stages, procVars, endVars, fileVars, resultVars>>

\* mutant: the events are serialized as they were before the final flush
ResolveBeforeFlush(code, by, evts) ==
  IF pc = "running"
  THEN /\ exitCode' = Num(code)
       /\ resolvedBy' = by
       /\ logContent' = Serialize(events)
       /\ pc' = "writeFile"
  ELSE UNCHANGED <<exitCode, resolvedBy, logContent, pc>>

\* the termination promise resolves with code; runCodex resumes at once and
\* serializes the events for writeFile
Resolve(code, by, evts) ==
  IF pc = "running"
  THEN /\ exitCode' = Num(code)
       /\ resolvedBy' = by
       /\ logContent' = Serialize(evts)
       /\ pc' = "writeFile"
  ELSE UNCHANGED <<exitCode, resolvedBy, logContent, pc>>

\* mutant: the 'close' handler resolves first and flushes the buffer after
ProcCloseFlushesLast(code) ==
  /\ Alive
  /\ mainProc \in {"running", "errored"}
  /\ mainProc' = "closed"
  /\ closeCode' = code
  /\ LET st == flushBuffer(buffer, events, TRUE)
     IN  /\ buffer' = st.buffer
         /\ events' = st.events
         /\ Resolve(CodeOrZero(code), "close", events)
  /\ UNCHANGED <<callVars, envVars, stages, spawned, loginProc, loginCode, config, emitted, fileVars, resultVars>>

\* codexProcess.on("close")
ProcClose(code) ==
  /\ Alive
  /\ mainProc \in {"running", "errored"}
  /\ mainProc' = "closed"
  /\ closeCode' = code
  /\ LET st == flushBuffer(buffer, events, TRUE)
     IN  /\ buffer' = st.buffer
         /\ events' = st.events
         /\ Resolve(CodeOrZero(code), "close", st.events)
  /\ UNCHANGED <<callVars, envVars, stages, spawned, loginProc, loginCode, config, emitted, fileVars, resultVars>>

\* mutant: the 'error' handler resolves with 0
ProcErrorResolvesZero ==
  /\ Alive
  /\ mainProc = "spawnfail"
  /\ mainProc' = "errored"
  /\ LET st == flushBuffer(buffer, events, TRUE)
     IN  /\ buffer' = st.buffer
         /\ events' = st.events
         /\ Resolve(0, "error", st.events)
  /\ UNCHANGED <<callVars, envVars, stages, spawned, loginProc, loginCode, config, emitted, closeCode, fileVars, resultVars>>

\* codexProcess.on("error"): the subprocess could not be spawned
ProcError ==
  /\ Alive
  /\ mainProc = "spawnfail"
  /\ mainProc' = "errored"
  /\ LET st == flushBuffer(buffer, events, TRUE)
     IN  /\ buffer' = st.buffer
         /\ events' = st.events
         /\ Resolve(1, "error", st.events)
  /\ UNCHANGED <<callVars, envVars, stages, spawned, loginProc, loginCode, config, emitted, closeCode, fileVars, resultVars>>

\* mutant: a non-zero exit code sets conclusion to failure but does not throw
ClassifyNoThrow(code, outs) ==
  /\ outputs' = Append(outs, Output("conclusion",
                   IF code = Num(0) THEN "success" ELSE "failure", "runCodex"))
  /\ runCodexResult' = Returned
  /\ pc' = "done"
  /\ UNCHANGED <<failedMsg, exitStatus>>

\* exitCode === 0 ? conclusion success : conclusion failure and throw
Classify(code, outs) ==
  IF code = Num(0)
  THEN /\ outputs' = Append(outs, Output("conclusion", "success", "runCodex"))
       /\ runCodexResult' = Returned
       /\ pc' = "done"
       /\ UNCHANGED <<failedMsg, exitStatus>>
  ELSE /\ runCodexResult' = Threw(Error("Codex CLI process exited with code", code))
       /\ Catch(runCodexResult'.error, Append(outs, Output("conclusion", "failure", "runCodex")))

\* mutant: the log is appended to the file instead of replacing it
WriteFileDoneAppends(ok) ==
  /\ pc = "writeFile"
  /\ IF ok
     THEN /\ fileContent' = [array |-> fileContent.array \o logContent.array,
                             trailingNewline |-> TRUE]
          /\ writes' = writes + 1
          /\ warnings' = warnings
          /\ Classify(exitCode, Append(outputs, Output("execution_file", "EXECUTION_FILE", "runCodex")))
     ELSE /\ warnings' = warnings + 1
          /\ UNCHANGED <<fileContent, writes>>
          /\ Classify(exitCode, outputs)
  /\ UNCHANGED <<callVars, envVars, stages, procVars, streamVars, endVars>>

\* mutant: no try/catch around writeFile, its failure is thrown
WriteFileDoneThrows(ok) ==
  /\ pc = "writeFile"
  /\ IF ok
     THEN /\ fileContent' = logContent
          /\ writes' = writes + 1
          /\ warnings' = warnings
          /\ Classify(exitCode, Append(outputs, Output("execution_file", "EXECUTION_FILE", "runCodex")))
     ELSE /\ warnings' = warnings + 1
          /\ UNCHANGED <<fileContent, writes>>
          /\ runCodexResult' = Threw(Error("Failed to write execution log", Null))
          /\ Catch(runCodexResult'.error, outputs)
  /\ UNCHANGED <<callVars, envVars, stages, procVars, streamVars, endVars>>

\* writeFile settles: the log is saved or a warning is issued; then the
\* classification
WriteFileDone(ok) ==
  /\ pc = "writeFile"
  /\ IF ok
     THEN /\ fileContent' = logContent
          /\ writes' = writes + 1
          /\ warnings' = warnings
          /\ Classify(exitCode, Append(outputs, Output("execution_file", "EXECUTION_FILE", "runCodex")))
     ELSE /\ warnings' = warnings + 1
          /\ UNCHANGED <<fileContent, writes>>
          /\ Classify(exitCode, outputs)
  /\ UNCHANGED <<callVars, envVars, stages, procVars, streamVars, endVars>>

Chunks == NonEmptySeqsUpTo(OutChars, MaxChunk)

Next ==
  \/ ValidateEnvironmentVariables
  \/ SetupCodexConfig
  \/ SetupCodexAuth
  \/ PreparePrompt
  \/ RunCodexStart
  \/ LoginError
  \/ \E code \in CloseCodes : LoginClose(code)
  \/ SpawnMain
  \/ \E chunk \in Chunks : StdoutData(chunk)
  \/ \E code \in CloseCodes : ProcClose(code)
  \/ ProcError
  \/ \E ok \in BOOLEAN : WriteFileDone(ok)

Spec == Init /\ [][Next]_vars

\* ------------------------------------------- prepareRunConfig on its own
\* prepareRunConfig called with every argument string up to MaxArgLen pieces
InitArgs ==
  /\ apiKey = Undefined
  /\ chatgptAuth = Undefined
  /\ codexArgs \in {Undefined} \cup SeqsUpTo(ArgPieces, MaxArgLen)
  /\ pc = "prepareRunConfig"
  /\ InitRest
  /\ NoCall

PrepareRunConfigCall ==
  /\ pc = "prepareRunConfig"
  /\ config' = prepareRunConfig(codexArgs)
  /\ pc' = "prepared"
  /\ UNCHANGED <<callVars, envVars, stages, spawned, loginProc, loginCode, mainProc,
                 streamVars, endVars, fileVars, resultVars>>

NextArgs == PrepareRunConfigCall

SpecArgs == InitArgs /\ [][NextArgs]_vars

\* ================================================================ claims
\* the conclusion values set by the function `by`, in order
ConclusionsBy(by) ==
  LET IsConclusion(o) == o.name = "conclusion" /\ o.by = by
      picked == SelectSeq(outputs, IsConclusion)
  IN  [i \in 1..Len(picked) |-> picked[i].value]

\* the value of the conclusion output: the last one set
Conclusion ==
  LET IsConclusion(o) == o.name = "conclusion"
      picked == SelectSeq(outputs, IsConclusion)
  IN  IF picked = <<>> THEN "unset" ELSE picked[Len(picked)].value

RunCodexEnded == runCodexResult.state # "pending"
ExitError(code) == Error("Codex CLI process exited with code", code)

\* the run of the main subprocess ended by its 'close' event, which carried
\* the numeric code c
ClosedWithNumber(c) ==
  mainProc = "closed" /\ resolvedBy = "close" /\ closeCode = Num(c)

\* C1: when the main subprocess closes with the numeric exit code c and
\* runCodex has ended: for c = 0 runCodex set conclusion to "success" and
\* returned normally; for c # 0 it set conclusion to "failure" and threw
\* the error that names the code c.
C1_ExitCodeDecidesOutcome ==
  \A c \in ExitCodes :
    (ClosedWithNumber(c) /\ RunCodexEnded) =>
      IF c = 0
      THEN /\ runCodexResult = Returned
           /\ ConclusionsBy("runCodex") = <<"success">>
           /\ Conclusion = "success"
      ELSE /\ runCodexResult = Threw(ExitError(Num(c)))
           /\ ConclusionsBy("runCodex") = <<"failure">>
           /\ Conclusion = "failure"

C1_Witness ==
  /\ ClosedWithNumber(2)
  /\ runCodexResult = Threw(ExitError(Num(2)))
  /\ emitted # <<>>

\* C2: when the main subprocess closes with a missing (null) exit code,
\* the run is classified as failure: conclusion "failure", runCodex throws.
C2_NullCodeIsFailure ==
  (mainProc = "closed" /\ resolvedBy = "close" /\ closeCode = Null /\ RunCodexEnded) =>
    /\ runCodexResult.state = "threw"
    /\ Conclusion = "failure"

\* the lines of a stdout content: the pieces between newlines, the last one
\* being what follows the last newline (empty when the content ends in one)
RECURSIVE LinesOf(_)
LinesOf(s) ==
  IF s = <<>> THEN << <<>> >>
  ELSE LET rest == LinesOf(Tail(s))
       IN  IF Head(s) = "\n" THEN << <<>> >> \o rest
           ELSE << <<Head(s)>> \o Head(rest) >> \o Tail(rest)

IsBlankLine(line) == \A i \in 1..Len(line) : line[i] \in WhiteSpace

\* a non-blank line without its leading and trailing white space
Stripped(line) ==
  LET idx == {i \in 1..Len(line) : line[i] \notin WhiteSpace}
      lo == CHOOSE i \in idx : \A j \in idx : i <= j
      hi == CHOOSE i \in idx : \A j \in idx : i >= j
  IN  SubSeq(line, lo, hi)

\* the event the claim gives a non-blank line
EventOfLine(line) ==
  LET t == Stripped(line)
  IN  IF JsonParses(t) THEN JsonParse(t) ELSE TextEvent(t)

\* one event per non-blank line, in order
RECURSIVE EventsOfLines(_)
EventsOfLines(lines) ==
  IF lines = <<>> THEN <<>>
  ELSE IF IsBlankLine(Head(lines)) THEN EventsOfLines(Tail(lines))
  ELSE <<EventOfLine(Head(lines))>> \o EventsOfLines(Tail(lines))

ExpectedEvents == EventsOfLines(LinesOf(emitted))

\* C3: once the main subprocess has closed, the event sequence holds exactly
\* one event per non-blank stdout line, in emission order (the decoded value
\* when the trimmed line decodes, else the text event of the trimmed line),
\* the last line counting also when no newline ends it; until then it holds
\* the events of the lines completed so far.
C3_OneEventPerNonBlankLine ==
  /\ mainProc = "closed" => events = ExpectedEvents
  /\ mainProc = "running" =>
       LET lines == LinesOf(emitted)
       IN  events = EventsOfLines(SubSeq(lines, 1, Len(lines) - 1))

C3_Witness ==
  /\ mainProc = "closed"
  /\ emitted = <<" ", "\n", "x">>
  /\ events = <<TextEvent(<<"x">>)>>

\* writeFile was called once with the serialized events: it either saved the
\* log or ended in the warning
WriteAttempted == logContent # NoLog /\ writes + warnings = 1

\* C4: whenever runCodex throws the exit-code error, the write of the event
\* log was attempted before, with every event captured before the exit (one
\* per non-blank stdout line); no failure skips the log.
C4_FailureStillWritesLog ==
  (runCodexResult.state = "threw"
     /\ runCodexResult.error.text = "Codex CLI process exited with code") =>
    /\ WriteAttempted
    /\ logContent = Serialize(ExpectedEvents)
    /\ writes = 1 => fileContent = logContent

C4_Witness ==
  /\ ClosedWithNumber(2)
  /\ runCodexResult = Threw(ExitError(Num(2)))
  /\ writes = 1
  /\ fileContent = Serialize(<<JsonNumber(<<"1">>), TextEvent(<<"x">>)>>)

\* C5: when the 'error' event of the main subprocess settles the run, the
\* exit code is 1, the buffer has been flushed, the events captured are
\* handed to writeFile, and runCodex ends with conclusion "failure" and the
\* error naming code 1 after the write was attempted.
C5_SpawnErrorIsFailureOne ==
  resolvedBy = "error" =>
    /\ exitCode = Num(1)
    /\ buffer = <<>>
    /\ logContent = Serialize(events)
    /\ RunCodexEnded =>
         /\ runCodexResult = Threw(ExitError(Num(1)))
         /\ ConclusionsBy("runCodex") = <<"failure">>
         /\ WriteAttempted

C5_Witness ==
  /\ resolvedBy = "error"
  /\ runCodexResult = Threw(ExitError(Num(1)))
  /\ writes = 1
  /\ fileContent = Serialize(<<>>)

\* C6: with a non-blank API key the main subprocess is spawned only after
\* the login subprocess closed with status 0; a login that exits non-zero
\* (or without a code) or fails to spawn makes runCodex throw and the main
\* subprocess is never spawned; with the key absent or blank no login
\* subprocess is spawned.
C6_LoginBeforeMain ==
  LET mainSpawned == \E i \in 1..Len(spawned) : spawned[i] = "main"
      loginSpawned == \E i \in 1..Len(spawned) : spawned[i] = "login"
      loginFailed == \/ loginProc = "errored"
                     \/ loginProc = "closed" /\ loginCode # Num(0)
  IN  /\ (TruthyTrim(apiKey) /\ mainSpawned) =>
             /\ spawned = <<"login", "main">>
             /\ loginProc = "closed"
             /\ loginCode = Num(0)
      /\ loginFailed => (runCodexResult.state = "threw" /\ ~mainSpawned /\ ~Alive)
      /\ ~TruthyTrim(apiKey) => (~loginSpawned /\ loginProc = "none")
      /\ loginSpawned => TruthyTrim(apiKey)

C6_Witness ==
  /\ spawned = <<"login", "main">>
  /\ loginCode = Num(0)
  /\ mainProc = "closed"

\* C7: the outcome of runCodex is decided by the exit code alone: whether
\* the log write succeeded (writes = 1) or failed (warnings = 1), exit code
\* 0 gives conclusion "success" and a normal return, any other code gives
\* conclusion "failure" and the thrown exit-code error.
C7_WriteFailureKeepsOutcome ==
  (exitCode # Null /\ RunCodexEnded) =>
    /\ writes + warnings = 1
    /\ runCodexResult = IF exitCode = Num(0) THEN Returned ELSE Threw(ExitError(exitCode))
    /\ ConclusionsBy("runCodex") = IF exitCode = Num(0) THEN <<"success">> ELSE <<"failure">>

C7_Witness ==
  /\ exitCode = Num(0)
  /\ warnings = 1
  /\ fileContent = PriorLog
  /\ runCodexResult = Returned
  /\ Conclusion = "success"

StageOrder ==
  <<"validateEnvironmentVariables", "setupCodexConfig", "setupCodexAuth",
    "preparePrompt", "runCodex">>

\* the errors each stage throws
ErrorsOfStage(stage) ==
  CASE stage = "validateEnvironmentVariables" ->
         {"Provide either OPENAI_API_KEY or chatgpt_auth_json"}
    [] stage = "setupCodexConfig" -> {"Failed to process config input"}
    [] stage = "setupCodexAuth" -> {"Authentication setup failed"}
    [] stage = "preparePrompt" -> {"Prompt is empty"}
    [] stage = "runCodex" ->
         {"Failed to spawn codex login", "codex login failed with exit code",
          "Codex CLI process exited with code"}

\* C8: in run(), the stages are called in order; an error thrown by a stage
\* is caught: the action is set as failed with that error, conclusion is
\* "failure", the process exits with status 1, and the stage that threw is
\* the last one called (no later stage runs).  Without an error nothing is
\* reported as failed.
C8_AnyStageErrorEndsRun ==
  /\ Len(stages) <= Len(StageOrder)
  /\ stages = SubSeq(StageOrder, 1, Len(stages))
  /\ (failedMsg # NoFailure) <=> (pc = "exited")
  /\ runCodexResult.state = "threw" =>
       (pc = "exited" /\ failedMsg.error = runCodexResult.error)
  /\ pc = "exited" =>
       /\ exitStatus = Num(1)
       /\ failedMsg.text = "Action failed with error"
       /\ Conclusion = "failure"
       /\ outputs[Len(outputs)] = Output("conclusion", "failure", "run")
       /\ stages # <<>>
       /\ failedMsg.error.text \in ErrorsOfStage(stages[Len(stages)])
  /\ pc # "exited" => exitStatus = Null

C8_Witness ==
  /\ pc = "exited"
  /\ stages = SubSeq(StageOrder, 1, 3)
  /\ failedMsg.error.text = "Authentication setup failed"
  /\ exitStatus = Num(1)

IsTextEvent(e) == e.kind = "object" /\ e.type = "text"
IsDecodedValue(e) ==
  \/ e = JsonObject
  \/ e = JsonNumber(e.value) /\ IsNumberText(e.value)

\* C9 as stated: once written, the log is an array whose every element is
\* an event object (a decoded record or the text event); it is written at
\* most once and nothing of the prior content is left.
C9_EveryElementIsEventObject ==
  /\ writes <= 1
  /\ writes = 1 =>
       /\ fileContent = logContent
       /\ \A i \in 1..Len(fileContent.array) : fileContent.array[i].kind = "object"

\* C9 amended: once written, the log is an array (with a trailing newline)
\* whose every element is the text event of a trimmed line that does not
\* decode, or the value decoded from a line, which is an object or any
\* other JSON value such as a number; it is written at most once per
\* invocation and replaces the prior content; until written, the prior
\* content stays.
C9_LogIsArrayOfEvents ==
  /\ writes <= 1
  /\ writes = 0 => fileContent = PriorLog
  /\ writes = 1 =>
       /\ fileContent = logContent
       /\ fileContent.trailingNewline
       /\ \A i \in 1..Len(fileContent.array) :
            LET e == fileContent.array[i]
            IN  \/ IsTextEvent(e) /\ e.value # <<>> /\ ~JsonParses(e.value)
                \/ ~IsTextEvent(e) /\ IsDecodedValue(e)

C9_Witness ==
  /\ writes = 1
  /\ fileContent.array = <<TextEvent(<<"x">>), JsonNumber(<<"1">>)>>

\* how many tokens of args are the structured-output flag / the stdin marker
CountJson(args) == Cardinality({i \in 1..Len(args) : MatchesFlag(args[i], JsonFlag)})
CountStdin(args) == Cardinality({i \in 1..Len(args) : args[i] = StdinMarker})
AtLeastOne(n) == IF n = 0 THEN 1 ELSE n

\* C10 as stated: the argv holds the structured-output flag exactly once
\* and the stdin marker exactly once.
C10_FlagsExactlyOnce ==
  pc = "prepared" => (CountJson(config) = 1 /\ CountStdin(config) = 1)

\* C10 amended: the argv holds the structured-output flag and the stdin
\* marker at least once each, and prepareRunConfig adds one only when the
\* user's tokens hold none: each occurs as often as among the user's
\* tokens, or once when the user gave none.
C10_FlagsPresentNotAdded ==
  pc = "prepared" =>
    /\ CountJson(config) = AtLeastOne(CountJson(customArgs(codexArgs)))
    /\ CountStdin(config) = AtLeastOne(CountStdin(customArgs(codexArgs)))

C10_Witness ==
  /\ pc = "prepared"
  /\ codexArgs = <<"-", " ", "--json", "=">>
  /\ config = <<ExecToken, StdinMarker, <<"--json", "=">>>>

\* ---------------------------------------------------------------- C11
\* the user's tokens read off the argument string directly: a token is a
\* maximal run of adjacent pieces that are neither blank nor an operator
IsWordPiece(p) == p \notin (ArgBlank \cup ArgOperators)

WordStarts(s) ==
  {i \in 1..Len(s) : IsWordPiece(s[i]) /\ (i = 1 \/ ~IsWordPiece(s[i - 1]))}

WordEnd(s, i) ==
  CHOOSE j \in i..Len(s) :
    /\ \A k \in i..j : IsWordPiece(s[k])
    /\ (j = Len(s) \/ ~IsWordPiece(s[j + 1]))

NthStart(s, n) ==
  CHOOSE i \in WordStarts(s) : Cardinality({j \in WordStarts(s) : j < i}) = n - 1

UserTokens(s) ==
  IF s = Undefined THEN <<>>
  ELSE [n \in 1..Cardinality(WordStarts(s)) |->
          SubSeq(s, NthStart(s, n), WordEnd(s, NthStart(s, n)))]

UserHasJson(s) == \E i \in 1..Len(UserTokens(s)) : MatchesFlag(UserTokens(s)[i], JsonFlag)
UserHasStdin(s) == \E i \in 1..Len(UserTokens(s)) : UserTokens(s)[i] = StdinMarker

ExpectedArgv(s) ==
  <<ExecToken>> \o UserTokens(s)
    \o (IF UserHasJson(s) THEN <<>> ELSE <<JsonFlag>>)
    \o (IF UserHasStdin(s) THEN <<>> ELSE <<StdinMarker>>)

\* C11: the argv is "exec", then the user's tokens in their order, then
\* --json iff no user token is --json or starts with --json=, then - iff no
\* user token is -; with both given by the user the argv is "exec" followed
\* by the user's tokens and nothing else.
C11_ArgvShape ==
  pc = "prepared" =>
    /\ config = ExpectedArgv(codexArgs)
    /\ (UserHasJson(codexArgs) /\ UserHasStdin(codexArgs)
          => config = <<ExecToken>> \o UserTokens(codexArgs))

\* the user gives the stdin marker but not the flag: --json follows the
\* user's tokens and no second marker is added
C11_Witness ==
  /\ pc = "prepared"
  /\ codexArgs = <<"x", " ", "-">>
  /\ config = <<ExecToken, <<"x">>, StdinMarker, JsonFlag>>

\* ------------------------------------------------------ parse-sdk-options
\* const ACCUMULATE_DELIMITER = "\x00", one piece of a string
ACCUMULATE_DELIMITER == "NUL"

NullValue == <<"null">>

\* the flag tokens of the argument strings; a flag token is one piece
FlagPieces ==
  {"--allowedTools", "--allowed-tools", "--disallowedTools", "--disallowed-tools",
   "--mcp-config", "--model", "--setting-sources"}

\* arg.slice(2) of a piece that starts with "--"
Slice2(piece) ==
  CASE piece = "--allowedTools" -> "allowedTools"
    [] piece = "--allowed-tools" -> "allowed-tools"
    [] piece = "--disallowedTools" -> "disallowedTools"
    [] piece = "--disallowed-tools" -> "disallowed-tools"
    [] piece = "--mcp-config" -> "mcp-config"
    [] piece = "--model" -> "model"
    [] piece = "--setting-sources" -> "setting-sources"

\* arg.startsWith("--")
StartsWithDashes(tok) == tok # <<>> /\ Head(tok) \in FlagPieces

FlagOf(tok) == <<Slice2(Head(tok))>> \o Tail(tok)

ACCUMULATING_FLAGS ==
  {<<"allowedTools">>, <<"allowed-tools">>, <<"disallowedTools">>,
   <<"disallowed-tools">>, <<"mcp-config">>}

\* a string | null | undefined value is truthy
Truthy(v) == v # Undefined /\ v # NullValue /\ v # <<>>

\* Record<string, string | null> as the list of its properties in
\* insertion order
HasKey(rec, flag) == \E i \in 1..Len(rec) : rec[i].flag = flag

GetKey(rec, flag) ==
  IF HasKey(rec, flag)
  THEN rec[CHOOSE i \in 1..Len(rec) : rec[i].flag = flag].value
  ELSE Undefined

\* mutant: an assignment adds a property even when the name is there
SetKeyAppends(rec, flag, v) == Append(rec, [flag |-> flag, value |-> v])

\* result[flag] = v
SetKey(rec, flag, v) ==
  IF HasKey(rec, flag)
  THEN [i \in 1..Len(rec) |-> IF rec[i].flag = flag THEN [flag |-> flag, value |-> v] ELSE rec[i]]
  ELSE Append(rec, [flag |-> flag, value |-> v])

RECURSIVE DeleteKey(_, _)
DeleteKey(rec, flag) ==
  IF rec = <<>> THEN <<>>
  ELSE IF Head(rec).flag = flag THEN DeleteKey(Tail(rec), flag)
  ELSE <<Head(rec)>> \o DeleteKey(Tail(rec), flag)

\* list.join(d), the strings of list being sequences of pieces
RECURSIVE Join(_, _)
Join(list, d) ==
  IF list = <<>> THEN <<>>
  ELSE IF Len(list) = 1 THEN Head(list)
  ELSE Head(list) \o <<d>> \o Join(Tail(list), d)

\* s.split(d)
RECURSIVE SplitFrom(_, _, _, _)
SplitFrom(s, d, cur, acc) ==
  IF s = <<>> THEN Append(acc, cur)
  ELSE IF Head(s) = d THEN SplitFrom(Tail(s), d, <<>>, Append(acc, cur))
  ELSE SplitFrom(Tail(s), d, Append(cur, Head(s)), acc)

Split(s, d) == SplitFrom(s, d, <<>>, <<>>)

\* list.flatMap((v) => v.split(","))
RECURSIVE FlatSplit(_, _)
FlatSplit(list, d) ==
  IF list = <<>> THEN <<>> ELSE Split(Head(list), d) \o FlatSplit(Tail(list), d)

MapTrim(list) == [i \in 1..Len(list) |-> Trim(list[i])]

\* list.filter(Boolean)
RECURSIVE FilterTruthy(_)
FilterTruthy(list) ==
  IF list = <<>> THEN <<>>
  ELSE IF Truthy(Head(list)) THEN <<Head(list)>> \o FilterTruthy(Tail(list))
  ELSE FilterTruthy(Tail(list))

\* [...new Set(list)]: the first of equal entries stays
RECURSIVE Dedup(_, _)
Dedup(list, seen) ==
  IF list = <<>> THEN <<>>
  ELSE IF Head(list) \in seen THEN Dedup(Tail(list), seen)
  ELSE <<Head(list)>> \o Dedup(Tail(list), seen \cup {Head(list)})

RECURSIVE LastValue(_, _)
\* mutant: an accumulating flag takes the next token only
LastValueNextOnly(tokens, i) == i + 1
\* the while loop of an accumulating flag at args[i]: the index of the last
\* of the consecutive tokens after it that do not start with "--"
LastValue(tokens, i) ==
  IF i + 1 <= Len(tokens) /\ ~StartsWithDashes(tokens[i + 1])
  THEN LastValue(tokens, i + 1)
  ELSE i

\* the for loop of parseClaudeArgsToExtraArgs from args[i] on
RECURSIVE ExtraArgsFrom(_, _, _)
ExtraArgsFrom(tokens, i, result) ==
  IF i > Len(tokens) THEN result
  ELSE IF ~StartsWithDashes(tokens[i]) THEN ExtraArgsFrom(tokens, i + 1, result)
  ELSE
    LET flag == FlagOf(tokens[i])
        nextArg == IF i + 1 <= Len(tokens) THEN tokens[i + 1] ELSE Undefined
    IN  IF Truthy(nextArg) /\ ~StartsWithDashes(nextArg)
        THEN IF flag \in ACCUMULATING_FLAGS
             THEN LET last == LastValue(tokens, i)
                      joinedValues == Join(SubSeq(tokens, i + 1, last), ACCUMULATE_DELIMITER)
                      old == GetKey(result, flag)
                  IN  ExtraArgsFrom(tokens, last + 1,
                        SetKey(result, flag,
                          IF Truthy(old)
                          THEN old \o <<ACCUMULATE_DELIMITER>> \o joinedValues
                          ELSE joinedValues))
             ELSE ExtraArgsFrom(tokens, i + 2, SetKey(result, flag, nextArg))
        ELSE ExtraArgsFrom(tokens, i + 1, SetKey(result, flag, NullValue))

parseClaudeArgsToExtraArgs(claudeArgs) ==
  IF BlankArgs(claudeArgs) THEN <<>>
  ELSE ExtraArgsFrom(FilterStrings(parseShellArgs(claudeArgs)), 1, <<>>)

\* the inline JSON texts: {} and {"mcpServers":{...}} with the properties
\* "a":1  "a":2  "b":1  "c":1 of the server map, each one piece, 1 and 2
\* standing for two different sub-objects
ServerEntries == {"a:1", "a:2", "b:1", "c:1"}

EntryKey(e) ==
  CASE e \in {"a:1", "a:2"} -> "a"
    [] e = "b:1" -> "b"
    [] e = "c:1" -> "c"

\* the pieces between {"mcpServers":{ and }}
InnerOf(t) == SubSeq(t, 3, Len(t) - 2)

IsEntryList(inner) ==
  \/ inner = <<>>
  \/ \A k \in 1..Len(Split(inner, ",")) :
       /\ Len(Split(inner, ",")[k]) = 1
       /\ Split(inner, ",")[k][1] \in ServerEntries

\* JSON.parse(t) returns
McpJsonParses(t) ==
  \/ t = <<"{", "}">>
  \/ /\ Len(t) >= 4
     /\ t[1] = "{"
     /\ t[2] = "mcpServers:{"
     /\ t[Len(t) - 1] = "}"
     /\ t[Len(t)] = "}"
     /\ IsEntryList(InnerOf(t))

\* parsed.mcpServers is there
HasMcpServers(t) == Len(t) >= 4

\* the properties of parsed.mcpServers in their order
McpServersOf(t) ==
  IF InnerOf(t) = <<>> THEN <<>>
  ELSE [k \in 1..Len(Split(InnerOf(t), ",")) |-> Split(InnerOf(t), ",")[k][1]]

HasServer(servers, key) == \E i \in 1..Len(servers) : EntryKey(servers[i]) = key

\* mutant: a server that is there already is kept
AssignKeepsFirst(servers, e) ==
  IF HasServer(servers, EntryKey(e)) THEN servers ELSE Append(servers, e)

\* servers[key] = sub for one property e of the source
AssignProperty(servers, e) ==
  IF HasServer(servers, EntryKey(e))
  THEN [i \in 1..Len(servers) |-> IF EntryKey(servers[i]) = EntryKey(e) THEN e ELSE servers[i]]
  ELSE Append(servers, e)

\* Object.assign(servers, more)
RECURSIVE ObjectAssign(_, _)
ObjectAssign(servers, more) ==
  IF more = <<>> THEN servers
  ELSE ObjectAssign(AssignProperty(servers, Head(more)), Tail(more))

\* JSON.stringify({ mcpServers: servers })
StringifyMcp(servers) ==
  <<"{", "mcpServers:{">> \o Join([i \in 1..Len(servers) |-> <<servers[i]>>], ",") \o <<"}", "}">>

\* the for loop of mergeMcpConfigs
RECURSIVE MergeFrom(_, _, _)
MergeFrom(configValues, servers, lastFilePath) ==
  IF configValues = <<>> THEN [servers |-> servers, lastFilePath |-> lastFilePath]
  ELSE
    LET trimmed == Trim(Head(configValues))
        rest == Tail(configValues)
    IN  IF trimmed = <<>> THEN MergeFrom(rest, servers, lastFilePath)
        ELSE IF Head(trimmed) = "{"
             THEN IF McpJsonParses(trimmed)
                  THEN IF HasMcpServers(trimmed)
                       THEN MergeFrom(rest, ObjectAssign(servers, McpServersOf(trimmed)), lastFilePath)
                       ELSE MergeFrom(rest, servers, lastFilePath)
                  ELSE MergeFrom(rest, servers, trimmed)
             ELSE MergeFrom(rest, servers, trimmed)

mergeMcpConfigs(configValues) ==
  LET m == MergeFrom(configValues, <<>>, NullValue)
  IN  IF m.servers = <<>> /\ Truthy(m.lastFilePath)
      THEN m.lastFilePath
      ELSE StringifyMcp(m.servers)

\* the tool list of the two spellings of a flag and the direct list
ExtraArgsTools(extraArgs, camel, hyphen) ==
  LET values == Join(FilterTruthy(<<GetKey(extraArgs, camel), GetKey(extraArgs, hyphen)>>),
                     ACCUMULATE_DELIMITER)
  IN  IF Truthy(values)
      THEN FilterTruthy(MapTrim(FlatSplit(Split(values, ACCUMULATE_DELIMITER), ",")))
      ELSE <<>>

DirectTools(direct) ==
  IF Truthy(direct) THEN MapTrim(Split(direct, ",")) ELSE <<>>

\* mutant: the two lists are put together and equal entries stay
MergedToolsKeepsEqual(extraArgs, camel, hyphen, direct) ==
  ExtraArgsTools(extraArgs, camel, hyphen) \o DirectTools(direct)

MergedTools(extraArgs, camel, hyphen, direct) ==
  Dedup(ExtraArgsTools(extraArgs, camel, hyphen) \o DirectTools(direct), {})

\* a tool list that is undefined
UndefinedList == <<Undefined>>

ListOrUndefined(list) == IF Len(list) > 0 THEN list ELSE UndefinedList

\* extraArgs["mcp-config"] after the merge of its values
WithMergedMcp(extraArgs) ==
  LET value == GetKey(extraArgs, <<"mcp-config">>)
      mcpConfigValues == Split(value, ACCUMULATE_DELIMITER)
  IN  IF Truthy(value) /\ Len(mcpConfigValues) > 1
      THEN SetKey(extraArgs, <<"mcp-config">>, mergeMcpConfigs(mcpConfigValues))
      ELSE extraArgs

DefaultSettingSources == <<<<"user">>, <<"project">>, <<"local">>>>

\* mutant: only the camel-case spellings are deleted
DeleteToolsCamelOnly(extraArgs) ==
  DeleteKey(DeleteKey(extraArgs, <<"allowedTools">>), <<"disallowedTools">>)

DeleteTools(extraArgs) ==
  DeleteKey(DeleteKey(DeleteKey(DeleteKey(extraArgs,
    <<"allowedTools">>), <<"allowed-tools">>), <<"disallowedTools">>), <<"disallowed-tools">>)

\* parseSdkOptions: the tool lists, extraArgs and settingSources of
\* sdkOptions; the options that are copied as they are (model, maxTurns,
\* systemPrompt, env) are not represented
parseSdkOptions(options) ==
  LET extraArgs == parseClaudeArgsToExtraArgs(options.claudeArgs)
      mergedAllowedTools ==
        MergedTools(extraArgs, <<"allowedTools">>, <<"allowed-tools">>, options.allowedTools)
      mergedDisallowedTools ==
        MergedTools(extraArgs, <<"disallowedTools">>, <<"disallowed-tools">>, options.disallowedTools)
      merged == WithMergedMcp(DeleteTools(extraArgs))
      sources == GetKey(merged, <<"setting-sources">>)
  IN  [allowedTools |-> ListOrUndefined(mergedAllowedTools),
       disallowedTools |-> ListOrUndefined(mergedDisallowedTools),
       extraArgs |-> DeleteKey(merged, <<"setting-sources">>),
       settingSources |-> IF Truthy(sources) THEN Split(sources, ",") ELSE DefaultSettingSources]

\* ----------------------------------------------- parseSdkOptions on its own
MaxTokens == 4

\* the words of the argument strings: tool-list flags in both spellings,
\* two other flags, and two values
ToolWords ==
  {<<"--allowedTools">>, <<"--allowed-tools">>, <<"--disallowedTools">>,
   <<"--disallowed-tools">>, <<"--model">>, <<"--setting-sources">>,
   <<"A">>, <<"B", ",", "A">>}

\* the direct comma-separated lists
DirectLists == {Undefined, <<"C", ",", " ", "A">>, <<"B", ",">>}

\* the argument string that holds the words
WordsToString(words) == Join(words, " ")

InitLibrary ==
  /\ apiKey = Undefined
  /\ chatgptAuth = Undefined
  /\ codexArgs = Undefined
  /\ InitRest
  /\ returned = <<>>
  /\ files = <<>>

InitTools ==
  /\ InitLibrary
  /\ heap = <<>>
  /\ pc = "parseSdkOptions"
  /\ \E words \in SeqsUpTo(ToolWords, MaxTokens) :
       \E allowed \in DirectLists, disallowed \in DirectLists :
         callArgs = [claudeArgs |-> WordsToString(words),
                     allowedTools |-> allowed,
                     disallowedTools |-> disallowed]

ParseSdkOptionsCall ==
  /\ pc = "parseSdkOptions"
  /\ returned' = parseSdkOptions(callArgs)
  /\ pc' = "parsed"
  /\ UNCHANGED <<callArgs, heap, files, streams, envVars, stages, procVars, streamVars, endVars, fileVars, resultVars>>

NextTools == ParseSdkOptionsCall

SpecTools == InitTools /\ [][NextTools]_vars

\* ---------------------------------------------------------------- C12
\* the words of the argument string of the call
ClaudeWords == UserTokens(callArgs.claudeArgs)

\* the entries of list at the indices of keep, in their order
RECURSIVE PickFrom(_, _, _)
PickFrom(list, keep, i) ==
  IF i > Len(list) THEN <<>>
  ELSE (IF i \in keep THEN <<list[i]>> ELSE <<>>) \o PickFrom(list, keep, i + 1)

\* the flag word a word at j belongs to: the last flag word before j
OwnerOf(words, j) ==
  IF \E i \in 1..(j - 1) : StartsWithDashes(words[i])
  THEN CHOOSE i \in 1..(j - 1) :
         /\ StartsWithDashes(words[i])
         /\ \A k \in (i + 1)..(j - 1) : ~StartsWithDashes(words[k])
  ELSE 0

\* the value words that follow an occurrence of one of the spellings, in
\* the order of the argument string
ValuesOf(words, spellings) ==
  PickFrom(words,
    {j \in 1..Len(words) :
       /\ ~StartsWithDashes(words[j])
       /\ OwnerOf(words, j) > 0
       /\ FlagOf(words[OwnerOf(words, j)]) \in spellings},
    1)

\* every occurrence of one of the spellings has a value after it
EveryOccurrenceHasValue(words, spellings) ==
  \A i \in 1..Len(words) :
    (StartsWithDashes(words[i]) /\ FlagOf(words[i]) \in spellings)
      => (i + 1 <= Len(words) /\ ~StartsWithDashes(words[i + 1]))

\* the tool names of value words: comma-separated, trimmed, none empty
ItemsOf(valueWords) == FilterTruthy(MapTrim(FlatSplit(valueWords, ",")))

\* the segments of the direct list, trimmed
DirectSegments(direct) == IF direct = Undefined THEN <<>> ELSE MapTrim(Split(direct, ","))

\* list without the entries that occur earlier in it
FirstSeen(list) ==
  PickFrom(list, {i \in 1..Len(list) : \A j \in 1..(i - 1) : list[j] # list[i]}, 1)

NoDuplicates(list) == \A i, j \in 1..Len(list) : list[i] = list[j] => i = j

ListOf(x) == IF x = UndefinedList THEN <<>> ELSE x

ToolKinds == {"allowedTools", "disallowedTools"}
CamelOf(kind) == <<kind>>
HyphenOf(kind) == IF kind = "allowedTools" THEN <<"allowed-tools">> ELSE <<"disallowed-tools">>

\* C12 as stated: the tool list is the union of the values of all
\* occurrences of the flag and of the direct list, without duplicates, in
\* the order of first appearance in the argument string, then the direct
\* list.
C12_OrderOfAppearance ==
  pc = "parsed" =>
    LET words == ClaudeWords
    IN  \A kind \in ToolKinds :
          EveryOccurrenceHasValue(words, {CamelOf(kind), HyphenOf(kind)}) =>
            ListOf(returned[kind]) =
              FirstSeen(ItemsOf(ValuesOf(words, {CamelOf(kind), HyphenOf(kind)}))
                          \o DirectSegments(callArgs[kind]))

\* C12 amended: the tool list has no duplicates and holds exactly the
\* values of all occurrences and the segments of the direct list, ordered
\* by first appearance in: the values after the camel-case spelling, then
\* the values after the hyphenated spelling, then the direct list.
C12_OrderBySpelling ==
  pc = "parsed" =>
    LET words == ClaudeWords
    IN  \A kind \in ToolKinds :
          EveryOccurrenceHasValue(words, {CamelOf(kind), HyphenOf(kind)}) =>
            /\ NoDuplicates(ListOf(returned[kind]))
            /\ ListOf(returned[kind]) =
                 FirstSeen(ItemsOf(ValuesOf(words, {CamelOf(kind)}))
                             \o ItemsOf(ValuesOf(words, {HyphenOf(kind)}))
                             \o DirectSegments(callArgs[kind]))

\* the hyphenated spelling comes first in the argument string and its
\* values come after those of the camel-case spelling in the list
C12_Witness ==
  /\ pc = "parsed"
  /\ callArgs.claudeArgs =
       <<"--allowed-tools", " ", "B", ",", "A", " ", "--allowedTools", " ", "A">>
  /\ callArgs.allowedTools = <<"C", ",", " ", "A">>
  /\ returned.allowedTools = <<<<"A">>, <<"B">>, <<"C">>>>

\* ---------------------------------------------------------------- C13
ToolKeys ==
  {<<"allowedTools">>, <<"allowed-tools">>, <<"disallowedTools">>, <<"disallowed-tools">>}

\* the flags of the argument string that do not accumulate
PlainFlags(words) ==
  {FlagOf(words[i]) : i \in {k \in 1..Len(words) : StartsWithDashes(words[k])}}
    \ ACCUMULATING_FLAGS

LastOccurrence(words, flag) ==
  CHOOSE i \in 1..Len(words) :
    /\ StartsWithDashes(words[i]) /\ FlagOf(words[i]) = flag
    /\ \A k \in (i + 1)..Len(words) : ~(StartsWithDashes(words[k]) /\ FlagOf(words[k]) = flag)

\* the value the occurrence at i gives: the next word unless it is a flag
GivenValue(words, i) ==
  IF i + 1 <= Len(words) /\ ~StartsWithDashes(words[i + 1]) THEN words[i + 1] ELSE NullValue

NoToolKeys == \A k \in ToolKeys : ~HasKey(returned.extraArgs, k)

KeptWithValue(words, flag) ==
  /\ HasKey(returned.extraArgs, flag)
  /\ GetKey(returned.extraArgs, flag) = GivenValue(words, LastOccurrence(words, flag))

\* C13 as stated: extraArgs holds none of the four tool-list keys, and
\* every other flag of the argument string that does not accumulate is in
\* extraArgs with its value.
C13_EveryPlainFlagKept ==
  pc = "parsed" =>
    /\ NoToolKeys
    /\ LET words == ClaudeWords
       IN  \A flag \in PlainFlags(words) : KeptWithValue(words, flag)

\* C13 amended: extraArgs holds none of the four tool-list keys and not
\* setting-sources, whose value is returned as settingSources; every other
\* flag that does not accumulate is in extraArgs with its value.
C13_PlainFlagsKeptButSources ==
  pc = "parsed" =>
    /\ NoToolKeys
    /\ ~HasKey(returned.extraArgs, <<"setting-sources">>)
    /\ LET words == ClaudeWords
       IN  \A flag \in PlainFlags(words) \ {<<"setting-sources">>} : KeptWithValue(words, flag)

\* --allowedTools A --model A: the tool list is extracted, --model stays
C13_Witness ==
  /\ pc = "parsed"
  /\ callArgs.claudeArgs = <<"--allowedTools", " ", "A", " ", "--model", " ", "A">>
  /\ returned.allowedTools = <<<<"A">>>>
  /\ returned.extraArgs = <<[flag |-> <<"model">>, value |-> <<"A">>]>>

\* ------------------------------------ parseClaudeArgsToExtraArgs on its own
InitExtraArgs ==
  /\ InitLibrary
  /\ heap = <<>>
  /\ pc = "parseClaudeArgsToExtraArgs"
  /\ \E words \in SeqsUpTo(ToolWords, MaxTokens) :
       callArgs = [claudeArgs |-> WordsToString(words)]

ParseClaudeArgsCall ==
  /\ pc = "parseClaudeArgsToExtraArgs"
  /\ returned' = [extraArgs |-> parseClaudeArgsToExtraArgs(callArgs.claudeArgs)]
  /\ pc' = "extraArgsParsed"
  /\ UNCHANGED <<callArgs, heap, files, streams, envVars, stages, procVars, streamVars, endVars, fileVars, resultVars>>

NextExtraArgs == ParseClaudeArgsCall

SpecExtraArgs == InitExtraArgs /\ [][NextExtraArgs]_vars

\* ---------------------------------------------------------------- C14
\* how many properties of the flag assignment have the name
CountKey(rec, flag) == Cardinality({i \in 1..Len(rec) : rec[i].flag = flag})

\* C14: a flag that does not accumulate is in the flag assignment once,
\* with the value its last occurrence gives, however often the argument
\* string gives it.
C14_LastOccurrenceWins ==
  pc = "extraArgsParsed" =>
    LET words == ClaudeWords
    IN  \A flag \in PlainFlags(words) :
          /\ CountKey(returned.extraArgs, flag) = 1
          /\ GetKey(returned.extraArgs, flag) = GivenValue(words, LastOccurrence(words, flag))

\* --model A --model B,A: the flag is given twice with values
C14_Witness ==
  /\ pc = "extraArgsParsed"
  /\ callArgs.claudeArgs = <<"--model", " ", "A", " ", "--model", " ", "B", ",", "A">>
  /\ returned.extraArgs = <<[flag |-> <<"model">>, value |-> <<"B", ",", "A">>]>>

\* ------------------------------------- parseSdkOptions with --mcp-config
\* the words of the argument strings: the flag, inline JSON fragments with
\* one server each, the empty object {}, a truncated JSON text and two
\* file paths
McpWords ==
  {<<"--mcp-config">>,
   <<"{", "mcpServers:{", "a:1", "}", "}">>,
   <<"{", "mcpServers:{", "a:2", "}", "}">>,
   <<"{", "mcpServers:{", "b:1", "}", "}">>,
   <<"{", "mcpServers:{", "c:1", "}", "}">>,
   <<"{", "}">>,
   <<"{", "mcpServers:{", "a:1">>,
   <<"/p">>,
   <<"/q">>}

InitMcp ==
  /\ InitLibrary
  /\ heap = <<>>
  /\ pc = "parseSdkOptions"
  /\ \E words \in SeqsUpTo(McpWords, MaxTokens) :
       callArgs = [claudeArgs |-> WordsToString(words),
                   allowedTools |-> Undefined,
                   disallowedTools |-> Undefined]

SpecMcp == InitMcp /\ [][NextTools]_vars

\* ---------------------------------------------------------------- C15
McpFlag == <<"mcp-config">>

\* the fragments the flag carries, in the order of the argument string
Fragments == ValuesOf(ClaudeWords, {McpFlag})

EveryMcpHasValue == EveryOccurrenceHasValue(ClaudeWords, {McpFlag})

\* the value of the flag in extraArgs
McpValue == GetKey(returned.extraArgs, McpFlag)

\* the fragment is inline JSON
IsInline(frag) == Head(frag) = "{" /\ McpJsonParses(frag)

\* the properties of the server map of a JSON text
EntrySet(t) == {t[i] : i \in 1..Len(t)} \cap ServerEntries

DefinedKeys(frags) ==
  {EntryKey(e) : e \in UNION {EntrySet(frags[i]) : i \in {k \in 1..Len(frags) : IsInline(frags[k])}}}

\* the property the last fragment that defines key gives it
LastEntry(frags, key) ==
  LET last == CHOOSE i \in 1..Len(frags) :
                /\ IsInline(frags[i]) /\ key \in {EntryKey(e) : e \in EntrySet(frags[i])}
                /\ \A k \in (i + 1)..Len(frags) :
                     ~(IsInline(frags[k]) /\ key \in {EntryKey(e) : e \in EntrySet(frags[k])})
  IN  CHOOSE e \in EntrySet(frags[last]) : EntryKey(e) = key

C16_InlineJsonWins ==
  (pc = "parsed" /\ EveryMcpHasValue) =>
    LET frags == Fragments
        value == McpValue
    IN  Len(frags) > 1 =>
          IF \E i \in 1..Len(frags) : IsInline(frags[i])
          THEN McpJsonParses(value) /\ HasMcpServers(value)
          ELSE value = frags[Len(frags)]

\* -------------------------------------------------------------- deepMerge
\* a TOML document is a table: a function from some keys to values; a value
\* is a scalar, an array, a date or a table
TomlKeys == {"k", "m"}
EmptyTable == <<>>
Scalar(t) == [kind |-> "scalar", leaf |-> t, table |-> EmptyTable]
ArrayValue == [kind |-> "array", leaf |-> "[1]", table |-> EmptyTable]
DateValue == [kind |-> "date", leaf |-> "1979-05-27", table |-> EmptyTable]
TableValue(t) == [kind |-> "table", leaf |-> "", table |-> t]
Leaves == {Scalar("1"), ArrayValue, DateValue}

\* the tables with n values in all, counted at every depth
RECURSIVE TablesCosting(_)
ValuesCosting(n) ==
  IF n = 1 THEN Leaves \cup {TableValue(EmptyTable)}
  ELSE {TableValue(t) : t \in TablesCosting(n - 1)}

TablesCosting(n) ==
  IF n = 0 THEN {EmptyTable}
  ELSE {("k" :> v) : v \in ValuesCosting(n)}
         \cup {("m" :> v) : v \in ValuesCosting(n)}
         \cup UNION {{("k" :> v) @@ ("m" :> w) : v \in ValuesCosting(c), w \in ValuesCosting(n - c)} :
                      c \in 1..(n - 1)}

\* an object of the heap: its class and its own enumerable properties, each
\* a scalar or a reference; tag is the content of an array or a date
EmptyObject == [class |-> "Object", tag |-> "", props |-> EmptyTable]
ScalarSlot(t) == [kind |-> "scalar", leaf |-> t, ref |-> 0]
RefSlot(r) == [kind |-> "ref", leaf |-> "", ref |-> r]

\* the document is put on the heap, every table, array and date an object
\* of its own
RECURSIVE Alloc(_, _)
RECURSIVE AllocProps(_, _, _, _)
AllocValue(h, v) ==
  IF v.kind = "scalar" THEN [heap |-> h, slot |-> ScalarSlot(v.leaf)]
  ELSE IF v.kind = "array"
       THEN [heap |-> Append(h, [class |-> "Array", tag |-> v.leaf, props |-> EmptyTable]),
             slot |-> RefSlot(Len(h) + 1)]
  ELSE IF v.kind = "date"
       THEN [heap |-> Append(h, [class |-> "Date", tag |-> v.leaf, props |-> EmptyTable]),
             slot |-> RefSlot(Len(h) + 1)]
  ELSE LET a == Alloc(h, v.table) IN [heap |-> a.heap, slot |-> RefSlot(a.ref)]

AllocProps(h, t, keys, props) ==
  IF keys = {} THEN [heap |-> h, props |-> props]
  ELSE LET key == CHOOSE k \in keys : TRUE
           a == AllocValue(h, t[key])
       IN  AllocProps(a.heap, t, keys \ {key}, (key :> a.slot) @@ props)

Alloc(h, t) ==
  LET p == AllocProps(h, t, DOMAIN t, EmptyTable)
  IN  [heap |-> Append(p.heap, [class |-> "Object", tag |-> "", props |-> p.props]),
       ref |-> Len(p.heap) + 1]

\* the document an object of the heap is the root of
RECURSIVE Deref(_, _)
DerefSlot(h, slot) ==
  IF slot.kind = "scalar" THEN Scalar(slot.leaf)
  ELSE IF h[slot.ref].class = "Array"
       THEN [kind |-> "array", leaf |-> h[slot.ref].tag, table |-> EmptyTable]
  ELSE IF h[slot.ref].class = "Date"
       THEN [kind |-> "date", leaf |-> h[slot.ref].tag, table |-> EmptyTable]
  ELSE TableValue(Deref(h, slot.ref))

Deref(h, ref) == [key \in DOMAIN h[ref].props |-> DerefSlot(h, h[ref].props[key])]

\* mutant: result is base itself, not a copy
SameObject(h, ref) == [heap |-> h, ref |-> ref]

\* mutant: the result starts as an empty object
SpreadCopyEmpty(h, ref) == [heap |-> Append(h, EmptyObject), ref |-> Len(h) + 1]

\* const result = { ...base }: a new object with the own properties of base
SpreadCopy(h, ref) ==
  [heap |-> Append(h, [class |-> "Object", tag |-> "", props |-> h[ref].props]),
   ref |-> Len(h) + 1]

\* value && typeof value === "object" && !Array.isArray(value)
\*   && !(value instanceof Date)
IsPlainObject(h, slot) == slot.kind = "ref" /\ h[slot.ref].class = "Object"

\* mutant: what is there is never taken for a table
NeverATable(h, slot) == FALSE

\* existing && typeof existing === "object" && !Array.isArray(existing)
IsObjectNotArray(h, slot) == slot.kind = "ref" /\ h[slot.ref].class # "Array"

\* result[key] = slot
SetProp(h, ref, key, slot) == [h EXCEPT ![ref].props = (key :> slot) @@ @]

\* the for loop of deepMerge over the entries of override that are left
RECURSIVE deepMerge(_, _, _)
RECURSIVE MergeEntries(_, _, _, _)
MergeEntries(h, result, override, keys) ==
  IF keys = {} THEN [heap |-> h, ref |-> result]
  ELSE
    LET key == CHOOSE k \in keys : TRUE
        value == h[override].props[key]
        rest == keys \ {key}
    IN  IF IsPlainObject(h, value)
        THEN IF key \in DOMAIN h[result].props /\ IsObjectNotArray(h, h[result].props[key])
             THEN LET sub == deepMerge(h, h[result].props[key].ref, value.ref)
                  IN  MergeEntries(SetProp(sub.heap, result, key, RefSlot(sub.ref)),
                                   result, override, rest)
             ELSE LET sub == deepMerge(Append(h, EmptyObject), Len(h) + 1, value.ref)
                  IN  MergeEntries(SetProp(sub.heap, result, key, RefSlot(sub.ref)),
                                   result, override, rest)
        ELSE MergeEntries(SetProp(h, result, key, value), result, override, rest)

deepMerge(h, base, override) ==
  LET r == SpreadCopy(h, base)
  IN  MergeEntries(r.heap, r.ref, override, DOMAIN h[override].props)

\* ----------------------------------------------------- deepMerge on its own
MaxNodes == 5

\* the tables of this many values with their number of values
TablesBy == [n \in 0..MaxNodes |-> TablesCosting(n)]

InitDeepMerge ==
  /\ InitLibrary
  /\ pc = "deepMerge"
  /\ \E a \in 0..MaxNodes :
       \E b \in 0..(MaxNodes - a) :
         \E A \in TablesBy[a], B \in TablesBy[b] :
           LET base == Alloc(<<>>, A)
               override == Alloc(base.heap, B)
           IN  /\ heap = override.heap
               /\ callArgs = [base |-> base.ref, override |-> override.ref,
                              snapshot |-> [base |-> A, override |-> B]]

DeepMergeCall ==
  /\ pc = "deepMerge"
  /\ LET merged == deepMerge(heap, callArgs.base, callArgs.override)
     IN  /\ heap' = merged.heap
         /\ returned' = merged.ref
  /\ pc' = "merged"
  /\ UNCHANGED <<callArgs, files, streams, envVars, stages, procVars, streamVars, endVars, fileVars, resultVars>>

NextDeepMerge == DeepMergeCall

SpecDeepMerge == InitDeepMerge /\ [][NextDeepMerge]_vars

\* ---------------------------------------------------------------- C17
\* result is base merged with override as the claim says it, key by key
RECURSIVE MergedAsStated(_, _, _)
MergedAsStated(base, override, result) ==
  /\ DOMAIN result = DOMAIN base \cup DOMAIN override
  /\ \A key \in DOMAIN base \ DOMAIN override : result[key] = base[key]
  /\ \A key \in DOMAIN override :
       IF override[key].kind = "table" /\ key \in DOMAIN base /\ base[key].kind = "table"
       THEN /\ result[key].kind = "table"
            /\ MergedAsStated(base[key].table, override[key].table, result[key].table)
       ELSE result[key] = override[key]

\* the document deepMerge returned
MergedDocument == Deref(heap, returned)

\* C17: in the document deepMerge returns, a table of override is merged
\* with the table base has at the key, recursively; every other value of
\* override replaces what base has at the key; the keys only base has are
\* kept with their values, at every depth.
C17_MergedKeyByKey ==
  pc = "merged" =>
    MergedAsStated(callArgs.snapshot.base, callArgs.snapshot.override, MergedDocument)

\* base {k: {k: 1, m: [1]}} and override {k: {m: date}}: the tables at k
\* are merged, the array at k.m is replaced by the date, k.k is kept
C17_Witness ==
  /\ pc = "merged"
  /\ callArgs.snapshot.base = ("k" :> TableValue(("k" :> Scalar("1")) @@ ("m" :> ArrayValue)))
  /\ callArgs.snapshot.override = ("k" :> TableValue(("m" :> DateValue)))
  /\ MergedDocument = ("k" :> TableValue(("k" :> Scalar("1")) @@ ("m" :> DateValue)))

\* ---------------------------------------------------------------- C18
\* C18: after deepMerge, base and override are the documents they were
\* before the call, at every depth.
C18_InputsNotMutated ==
  pc = "merged" =>
    /\ Deref(heap, callArgs.base) = callArgs.snapshot.base
    /\ Deref(heap, callArgs.override) = callArgs.snapshot.override

\* base {k: {k: 1}} and override {k: {m: 1}, m: 1}: the result has a new
\* key at both depths and base has neither of them
C18_Witness ==
  /\ pc = "merged"
  /\ callArgs.snapshot.base = ("k" :> TableValue(("k" :> Scalar("1"))))
  /\ callArgs.snapshot.override =
       ("k" :> TableValue(("m" :> Scalar("1")))) @@ ("m" :> Scalar("1"))
  /\ MergedDocument =
       ("k" :> TableValue(("k" :> Scalar("1")) @@ ("m" :> Scalar("1")))) @@ ("m" :> Scalar("1"))
  /\ Deref(heap, callArgs.base) = ("k" :> TableValue(("k" :> Scalar("1"))))

\* ------------------------------------------- deepMerge applied in sequence
MaxTripleNodes == 4

InitSequence ==
  /\ InitLibrary
  /\ pc = "mergeLeft"
  /\ \E a \in 0..MaxTripleNodes :
       \E b \in 0..(MaxTripleNodes - a) :
         \E c \in 0..(MaxTripleNodes - a - b) :
           \E A \in TablesCosting(a), B \in TablesCosting(b), C \in TablesCosting(c) :
             LET first == Alloc(<<>>, A)
                 second == Alloc(first.heap, B)
                 third == Alloc(second.heap, C)
             IN  /\ heap = third.heap
                 /\ callArgs = [A |-> first.ref, B |-> second.ref, C |-> third.ref,
                                snapshot |-> [A |-> A, B |-> B, C |-> C]]

\* mutant: C is applied before B
MergeLeftCallOtherOrder ==
  /\ pc = "mergeLeft"
  /\ LET inner == deepMerge(heap, callArgs.A, callArgs.C)
         outer == deepMerge(inner.heap, inner.ref, callArgs.B)
     IN  /\ heap' = outer.heap
         /\ returned' = [left |-> outer.ref, right |-> 0]
  /\ pc' = "mergeRight"
  /\ UNCHANGED <<callArgs, files, streams, envVars, stages, procVars, streamVars, endVars, fileVars, resultVars>>

\* deepMerge(deepMerge(A, B), C)
MergeLeftCall ==
  /\ pc = "mergeLeft"
  /\ LET inner == deepMerge(heap, callArgs.A, callArgs.B)
         outer == deepMerge(inner.heap, inner.ref, callArgs.C)
     IN  /\ heap' = outer.heap
         /\ returned' = [left |-> outer.ref, right |-> 0]
  /\ pc' = "mergeRight"
  /\ UNCHANGED <<callArgs, files, streams, envVars, stages, procVars, streamVars, endVars, fileVars, resultVars>>

\* deepMerge(A, deepMerge(B, C))
MergeRightCall ==
  /\ pc = "mergeRight"
  /\ LET inner == deepMerge(heap, callArgs.B, callArgs.C)
         outer == deepMerge(inner.heap, callArgs.A, inner.ref)
     IN  /\ heap' = outer.heap
         /\ returned' = [returned EXCEPT !.right = outer.ref]
  /\ pc' = "mergedBoth"
  /\ UNCHANGED <<callArgs, files, streams, envVars, stages, procVars, streamVars, endVars, fileVars, resultVars>>

NextSequence == MergeLeftCall \/ MergeRightCall

SpecSequence == InitSequence /\ [][NextSequence]_vars

\* ---------------------------------------------------------------- C19
LeftDocument == Deref(heap, returned.left)
RightDocument == Deref(heap, returned.right)

RECURSIVE NoValueBetweenTables(_, _, _)
NoValueBetweenTables(A, B, C) ==
  \A key \in DOMAIN A \cap DOMAIN B \cap DOMAIN C :
    (A[key].kind = "table" /\ C[key].kind = "table") =>
      /\ B[key].kind = "table"
      /\ NoValueBetweenTables(A[key].table, B[key].table, C[key].table)

TomlValuePieces == {"1", "[1]", "1979-05-27"}

ParseValue(piece) ==
  CASE piece = "1" -> Scalar("1")
    [] piece = "[1]" -> ArrayValue
    [] piece = "1979-05-27" -> DateValue

\* a line of blanks or a comment
TomlSkipped(line) ==
  \/ \A i \in 1..Len(line) : line[i] = " "
  \/ Head(line) = "#"

\* key = value
IsAssignment(line) ==
  /\ Len(line) = 3
  /\ line[1] \in TomlKeys
  /\ line[2] = "="
  /\ line[3] \in TomlValuePieces

\* [key] or [key.key...]
IsHeader(line) ==
  /\ Len(line) >= 3
  /\ Len(line) % 2 = 1
  /\ line[1] = "["
  /\ line[Len(line)] = "]"
  /\ \A i \in 2..(Len(line) - 1) :
       IF i % 2 = 0 THEN line[i] \in TomlKeys ELSE line[i] = "."

HeaderPath(line) == [i \in 1..((Len(line) - 1) \div 2) |-> line[2 * i]]

RECURSIVE GetTable(_, _)
GetTable(doc, path) ==
  IF path = <<>> THEN doc ELSE GetTable(doc[Head(path)].table, Tail(path))

RECURSIVE PutAt(_, _, _, _)
PutAt(doc, path, key, v) ==
  IF path = <<>> THEN (key :> v) @@ doc
  ELSE (Head(path) :> TableValue(PutAt(doc[Head(path)].table, Tail(path), key, v))) @@ doc

\* the tables on the path are there or can be made
RECURSIVE CanOpen(_, _)
CanOpen(doc, path) ==
  \/ path = <<>>
  \/ Head(path) \notin DOMAIN doc
  \/ /\ doc[Head(path)].kind = "table"
     /\ CanOpen(doc[Head(path)].table, Tail(path))

RECURSIVE OpenTable(_, _)
OpenTable(doc, path) ==
  IF path = <<>> THEN doc
  ELSE LET sub == IF Head(path) \in DOMAIN doc THEN doc[Head(path)].table ELSE EmptyTable
       IN  (Head(path) :> TableValue(OpenTable(sub, Tail(path)))) @@ doc

\* parseToml line by line: path is the table the last header opened; a key
\* given twice and a line that is none of the above are errors
RECURSIVE ParseLines(_, _, _)
ParseLines(lines, doc, path) ==
  IF lines = <<>> THEN [ok |-> TRUE, doc |-> doc]
  ELSE
    LET line == Head(lines)
    IN  IF TomlSkipped(line) THEN ParseLines(Tail(lines), doc, path)
        ELSE IF IsHeader(line) /\ CanOpen(doc, HeaderPath(line))
             THEN ParseLines(Tail(lines), OpenTable(doc, HeaderPath(line)), HeaderPath(line))
        ELSE IF IsAssignment(line) /\ line[1] \notin DOMAIN GetTable(doc, path)
             THEN ParseLines(Tail(lines), PutAt(doc, path, line[1], ParseValue(line[3])), path)
        ELSE [ok |-> FALSE, doc |-> EmptyTable]

parseToml(text) == ParseLines(text, EmptyTable, <<>>)

\* stringifyToml: the values of a table that are no tables first, then a
\* section for each table
KeyOrder == <<"k", "m">>

HeaderLine(path) == <<"[">> \o Join([i \in 1..Len(path) |-> <<path[i]>>], ".") \o <<"]">>

RECURSIVE LeafLines(_, _)
LeafLines(t, keys) ==
  IF keys = <<>> THEN <<>>
  ELSE (IF Head(keys) \in DOMAIN t /\ t[Head(keys)].kind # "table"
        THEN << <<Head(keys), "=", t[Head(keys)].leaf>> >>
        ELSE <<>>)
       \o LeafLines(t, Tail(keys))

RECURSIVE StringifyTable(_, _)
RECURSIVE TableLines(_, _, _)
TableLines(t, path, keys) ==
  IF keys = <<>> THEN <<>>
  ELSE (IF Head(keys) \in DOMAIN t /\ t[Head(keys)].kind = "table"
        THEN <<HeaderLine(Append(path, Head(keys)))>>
               \o StringifyTable(t[Head(keys)].table, Append(path, Head(keys)))
        ELSE <<>>)
       \o TableLines(t, path, Tail(keys))

StringifyTable(t, path) == LeafLines(t, KeyOrder) \o TableLines(t, path, KeyOrder)

\* every line of the result ends with "\n"
stringifyToml(doc) == StringifyTable(doc, <<>>) \o << <<>> >>

\* serialized.endsWith("\n") ? serialized : `${serialized}\n`
WithFinalNewline(text) ==
  IF Len(text) >= 2 /\ text[Len(text)] = <<>> THEN text ELSE Append(text, <<>>)

\* text.trim() is falsy
BlankText(text) == \A i \in 1..Len(text) : \A j \in 1..Len(text[i]) : text[i][j] = " "

\* deepMerge of two documents that parseToml returned
MergeDocuments(base, override) ==
  LET a == Alloc(<<>>, base)
      b == Alloc(a.heap, override)
      merged == deepMerge(b.heap, a.ref, b.ref)
  IN  Deref(merged.heap, merged.ref)

\* no configInput, no file
NoInput == << <<"undefined">> >>
AbsentFile == << <<"ENOENT">> >>

EmptyText == << <<>> >>
InvalidText == << <<"k", "=", "{">> >>
CommentedText == << <<"#">>, <<"k", "=", "1">>, <<>> >>
PathText == << <<"/p">> >>

MaxConfigNodes == 2

\* the TOML texts of the documents of up to MaxConfigNodes values
DocumentTexts ==
  {stringifyToml(doc) : doc \in UNION {TablesCosting(n) : n \in 0..MaxConfigNodes}}

\* what a file can hold
FileTexts == DocumentTexts \cup {EmptyText, << <<" ">>, <<>> >>, InvalidText, CommentedText}

\* the content of the file a string names: only PathText names a file
FileAt(path) == IF path = PathText THEN files.input ELSE AbsentFile

InitConfig ==
  /\ apiKey = Undefined
  /\ chatgptAuth = Undefined
  /\ codexArgs = Undefined
  /\ InitRest
  /\ heap = <<>>
  /\ pc = "mkdir"
  /\ returned = [outcome |-> "pending", config |-> EmptyTable, pathRead |-> FALSE]
  /\ \E existing \in FileTexts \cup {AbsentFile} :
       \E input \in {NoInput, EmptyText, << <<" ">> >>, InvalidText, PathText} \cup DocumentTexts :
         \E named \in IF input = PathText THEN FileTexts \cup {AbsentFile} ELSE {AbsentFile} :
           /\ files = [config |-> existing, input |-> named, writes |-> 0]
           /\ callArgs = [configInput |-> input, snapshot |-> existing]

ConfigFrame == UNCHANGED <<callArgs, heap, streams, envVars, stages, procVars, streamVars, endVars, fileVars, resultVars>>

Throws == [returned EXCEPT !.outcome = "threw"]

\* await $`mkdir -p ${configDir}`
Mkdir(ok) ==
  /\ pc = "mkdir"
  /\ IF ok THEN pc' = "readExisting" /\ UNCHANGED returned
     ELSE pc' = "settled" /\ returned' = Throws
  /\ UNCHANGED files
  /\ ConfigFrame

\* the config after the first try block
ExistingConfig ==
  IF files.config # AbsentFile /\ ~BlankText(files.config) /\ parseToml(files.config).ok
  THEN parseToml(files.config).doc
  ELSE EmptyTable

\* await readFile(configPath) and what follows up to the next await
ReadExisting ==
  /\ pc = "readExisting"
  /\ LET configInput == callArgs.configInput
     IN  IF configInput # NoInput /\ ~BlankText(configInput)
         THEN IF parseToml(configInput).ok
              THEN /\ returned' = [returned EXCEPT !.config =
                                     MergeDocuments(ExistingConfig, parseToml(configInput).doc)]
                   /\ pc' = "writeFile"
              ELSE /\ returned' = [returned EXCEPT !.config = ExistingConfig, !.pathRead = TRUE]
                   /\ pc' = "readInput"
         ELSE /\ returned' = [returned EXCEPT !.config = ExistingConfig]
              /\ pc' = "writeFile"
  /\ UNCHANGED files
  /\ ConfigFrame

\* mutant: a config file that cannot be read or parsed counts as empty
ReadInputFileForgives ==
  /\ pc = "readInput"
  /\ LET inputFile == FileAt(callArgs.configInput)
     IN  IF inputFile # AbsentFile /\ parseToml(inputFile).ok
         THEN returned' = [returned EXCEPT !.config =
                             MergeDocuments(returned.config, parseToml(inputFile).doc)]
         ELSE UNCHANGED returned
  /\ pc' = "writeFile"
  /\ UNCHANGED files
  /\ ConfigFrame

\* await readFile(configInput) and what follows up to the next await
ReadInputFile ==
  /\ pc = "readInput"
  /\ LET inputFile == FileAt(callArgs.configInput)
     IN  IF inputFile # AbsentFile /\ parseToml(inputFile).ok
         THEN /\ returned' = [returned EXCEPT !.config =
                                MergeDocuments(returned.config, parseToml(inputFile).doc)]
              /\ pc' = "writeFile"
         ELSE /\ returned' = Throws
              /\ pc' = "settled"
  /\ UNCHANGED files
  /\ ConfigFrame

\* await writeFile(configPath, ...)
WriteConfig(ok) ==
  /\ pc = "writeFile"
  /\ IF ok
     THEN /\ files' = [files EXCEPT !.config = WithFinalNewline(stringifyToml(returned.config)),
                                    !.writes = @ + 1]
          /\ returned' = [returned EXCEPT !.outcome = "returned"]
     ELSE /\ UNCHANGED files
          /\ returned' = Throws
  /\ pc' = "settled"
  /\ ConfigFrame

NextConfig ==
  \/ \E ok \in BOOLEAN : Mkdir(ok)
  \/ ReadExisting
  \/ ReadInputFile
  \/ \E ok \in BOOLEAN : WriteConfig(ok)

SpecConfig == InitConfig /\ [][NextConfig]_vars

\* ---------------------------------------------------------------- C20
\* the config input is neither absent nor blank
InputGiven == callArgs.configInput # NoInput /\ ~BlankText(callArgs.configInput)

Decodes(text) == text # AbsentFile /\ parseToml(text).ok

\* the document the config file held when setupCodexConfig was called: the
\* empty document when there was no file, a blank one or one that does not
\* decode
SnapshotDocument ==
  IF Decodes(callArgs.snapshot) /\ ~BlankText(callArgs.snapshot)
  THEN parseToml(callArgs.snapshot).doc
  ELSE EmptyTable

\* the config file holds the document the snapshot held, merged with the
\* document of text
WrittenMerged(text) ==
  /\ files.writes = 1
  /\ Decodes(files.config)
  /\ MergedAsStated(SnapshotDocument, parseToml(text).doc, parseToml(files.config).doc)

\* C20: a config input that is given is decoded as TOML first and is read
\* as a file path only when that fails; when the file cannot be read or
\* decoded either, setupCodexConfig throws and the config file is not
\* written; without a config input the config file is written with the
\* document it held before, the empty document when it held none.
C20_DecodeThenPathThenThrow ==
  /\ returned.pathRead => (InputGiven /\ ~Decodes(callArgs.configInput))
  /\ (InputGiven /\ Decodes(callArgs.configInput) /\ returned.outcome = "returned")
       => WrittenMerged(callArgs.configInput)
  /\ (InputGiven /\ ~Decodes(callArgs.configInput) /\ returned.outcome = "returned")
       => (returned.pathRead /\ WrittenMerged(FileAt(callArgs.configInput)))
  /\ (pc = "settled" /\ InputGiven /\ ~Decodes(callArgs.configInput)
        /\ ~Decodes(FileAt(callArgs.configInput)))
       => /\ returned.outcome = "threw"
          /\ files.writes = 0
          /\ files.config = callArgs.snapshot
  /\ (~InputGiven /\ returned.outcome = "returned")
       => /\ files.writes = 1
          /\ Decodes(files.config)
          /\ parseToml(files.config).doc = SnapshotDocument

\* the config input names a file that is not there, after the directory was
\* made and the config file with k = 1 was read: thrown, nothing written
C20_Witness ==
  /\ pc = "settled"
  /\ callArgs.configInput = PathText
  /\ files.input = AbsentFile
  /\ callArgs.snapshot = << <<"k", "=", "1">>, <<>> >>
  /\ returned.pathRead
  /\ returned.outcome = "threw"
  /\ files.config = callArgs.snapshot
  /\ files.writes = 0

\* ============================================================ preparePrompt
\* what existsSync and statSync see at a path: nothing, a file with its
\* content, or a directory with the size the file system reports for it
NoEntry == [kind |-> "none", content |-> <<>>, size |-> 0]
FileEntry(content) == [kind |-> "file", content |-> content, size |-> Len(content)]
DirectoryEntry(size) == [kind |-> "directory", content |-> <<>>, size |-> size]

existsSync(fs, p) == p \in DOMAIN fs /\ fs[p].kind # "none"

\* statSync(p).size
StatSize(fs, p) == fs[p].size

\* os.tmpdir()
OsTmpdir == <<"/tmp">>

\* process.env.RUNNER_TEMP?.trim() || os.tmpdir()
BaseTmp(runnerTemp) ==
  IF runnerTemp # Undefined /\ Truthy(Trim(runnerTemp)) THEN Trim(runnerTemp) ELSE OsTmpdir

\* path.join(baseTmp, "codex-action", "prompt.txt")
InlinePath(runnerTemp) == BaseTmp(runnerTemp) \o <<"/", "codex-action", "/", "prompt.txt">>

\* the messages of the errors, each a list of pieces
NeitherMessage == <<"Neither 'prompt' nor 'prompt_file' was provided. At least one is required.">>
BothMessage == <<"Both 'prompt' and 'prompt_file' were provided. Please specify only one.">>
MissingMessage(promptFile) == <<"Prompt file '">> \o promptFile \o <<"' does not exist.">>
EmptyFileMessage == <<"Prompt file is empty. Please provide a non-empty prompt.">>
EmptyPromptMessage == <<"Prompt is empty. Please provide a non-empty prompt.">>

\* mutant: a prompt of white space only counts as a prompt
InlinePromptEmptyNoTrim(prompt) == ~Truthy(prompt)
\* !input.prompt || input.prompt.trim().length === 0
InlinePromptEmpty(prompt) == ~Truthy(prompt) \/ Len(Trim(prompt)) = 0

PromptThrew(message) ==
  [outcome |-> "threw", message |-> message, type |-> "none", path |-> <<>>]
PromptConfig(outcome, type, p) ==
  [outcome |-> outcome, message |-> <<>>, type |-> type, path |-> p]

\* validateAndPreparePrompt(input): the error it throws or the config it
\* returns
validateAndPreparePrompt(fs, input) ==
  IF ~Truthy(input.prompt) /\ ~Truthy(input.promptFile) THEN PromptThrew(NeitherMessage)
  ELSE IF Truthy(input.prompt) /\ Truthy(input.promptFile) THEN PromptThrew(BothMessage)
  ELSE IF Truthy(input.promptFile)
    THEN IF ~existsSync(fs, input.promptFile) THEN PromptThrew(MissingMessage(input.promptFile))
         ELSE IF StatSize(fs, input.promptFile) = 0 THEN PromptThrew(EmptyFileMessage)
         ELSE PromptConfig("validated", "file", input.promptFile)
  ELSE IF InlinePromptEmpty(input.prompt) THEN PromptThrew(EmptyPromptMessage)
  ELSE PromptConfig("validated", "inline", InlinePath(input.runnerTemp))

\* the sizes a file system reports for a directory
DirectorySizes == {0, 4096}

Prompts == {<<>>, <<" ">>, <<"\n", " ">>, <<"p">>, <<" ", "p", "\n">>}
PromptFiles == {<<>>, <<" ">>, <<"/full">>, <<"/empty">>, <<"/missing">>, <<"/dir">>, <<"/dir0">>}
RunnerTemps == {Undefined, <<>>, <<" ">>, <<" ", "/r", " ">>}
InlinePaths == {InlinePath(t) : t \in RunnerTemps}

\* the files the caller may name, and what is at the inline path before the
\* call
NamedFiles ==
  (<<"/full">> :> FileEntry(<<"q">>)) @@ (<<"/empty">> :> FileEntry(<<>>))
    @@ (<<"/dir">> :> DirectoryEntry(4096)) @@ (<<"/dir0">> :> DirectoryEntry(0))

InitPrompt ==
  /\ apiKey = Undefined
  /\ chatgptAuth = Undefined
  /\ codexArgs = Undefined
  /\ InitRest
  /\ heap = <<>>
  /\ returned = PromptConfig("pending", "none", <<>>)
  /\ pc = "validateAndPreparePrompt"
  /\ \E prompt \in Prompts, promptFile \in PromptFiles, runnerTemp \in RunnerTemps :
       callArgs = [prompt |-> prompt, promptFile |-> promptFile, runnerTemp |-> runnerTemp]
  /\ \E before \in {NoEntry, FileEntry(<<>>), FileEntry(<<"o", "l", "d">>), DirectoryEntry(4096)} :
       files = NamedFiles @@ [p \in InlinePaths |-> before]

PromptFrame == UNCHANGED <<callArgs, heap, streams, envVars, stages, procVars, streamVars, endVars, fileVars, resultVars>>

\* const config = await validateAndPreparePrompt(input); a config of type
\* "file" is returned as it is
ValidateAndPreparePrompt ==
  /\ pc = "validateAndPreparePrompt"
  /\ LET validated == validateAndPreparePrompt(files, callArgs)
     IN  /\ returned' = IF validated.type = "file"
                        THEN [validated EXCEPT !.outcome = "returned"]
                        ELSE validated
         /\ pc' = IF validated.outcome = "threw" THEN "promptSettled"
                  ELSE IF validated.type = "file" THEN "promptSettled"
                  ELSE "createTemporaryPromptFile"
  /\ UNCHANGED files
  /\ PromptFrame

\* await createTemporaryPromptFile(input.prompt, config.path): mkdir of the
\* directory, then writeFile; either may reject, and writeFile rejects on a
\* directory
CreateTemporaryPromptFile(mkdirOk, writeOk) ==
  /\ pc = "createTemporaryPromptFile"
  /\ (files[returned.path].kind = "directory") => ~writeOk
  /\ pc' = "promptSettled"
  /\ IF mkdirOk /\ writeOk
     THEN /\ files' = [files EXCEPT ![returned.path] = FileEntry(callArgs.prompt)]
          /\ returned' = [returned EXCEPT !.outcome = "returned"]
     ELSE /\ files' = files
          /\ returned' = PromptThrew(IF mkdirOk THEN <<"writeFile">> ELSE <<"mkdir">>)
  /\ PromptFrame

NextPrompt ==
  \/ ValidateAndPreparePrompt
  \/ \E mkdirOk \in BOOLEAN, writeOk \in BOOLEAN : CreateTemporaryPromptFile(mkdirOk, writeOk)

SpecPrompt == InitPrompt /\ [][NextPrompt]_vars

CodeString(code) == IF code = Null THEN "null" ELSE ToString(code[1])

\* the message of an error of runCodex: the text of its template literal and
\* the code interpolated at its end
ErrorMessage(error) == <<error.text, " ", CodeString(error.code)>>

\* C22: when the 'close' event of the login subprocess carries null (the
\* subprocess was ended by a signal), runCodex throws an error whose message
\* holds the note "terminated by signal" and no exit code.
C22_LoginSignalNote ==
  (loginProc = "closed" /\ loginCode = Null) =>
    /\ runCodexResult.state = "threw"
    /\ \E i \in 1..Len(ErrorMessage(runCodexResult.error)) :
         ErrorMessage(runCodexResult.error)[i] = "terminated by signal"
    /\ \A i \in 1..Len(ErrorMessage(runCodexResult.error)) :
         ErrorMessage(runCodexResult.error)[i] # CodeString(loginCode)

\* ================================================= the streams of runCodex
MaxPrompt == 2

\* createReadStream(config.promptPath) and promptStream.pipe(stdin): the
\* prompt file is read in `unread` chunks, each written to stdin
OpenStreams(chunks) ==
  [prompt |-> "open", unread |-> chunks, stdin |-> "open", written |-> 0,
   stdout |-> "open", logged |-> <<>>]

\* runCodex from the spawn of the main subprocess on, with a prompt file of
\* up to MaxPrompt chunks
InitStreams ==
  /\ apiKey = Undefined
  /\ chatgptAuth = Undefined
  /\ codexArgs = Undefined
  /\ InitRest
  /\ returned = <<>>
  /\ heap = <<>>
  /\ files = <<>>
  /\ pc = "stat"
  /\ \E chunks \in 0..MaxPrompt : callArgs = [promptChunks |-> chunks]

StreamFrame ==
  UNCHANGED <<callArgs, returned, heap, files, envVars, pc, stages, procVars, streamVars,
              endVars, fileVars, resultVars>>

\* spawn of the main subprocess, the handlers, the prompt stream and its pipe
SpawnAndPipe ==
  /\ pc = "stat"
  /\ spawned' = Append(spawned, "main")
  /\ \E ok \in BOOLEAN : mainProc' = IF ok THEN "running" ELSE "spawnfail"
  /\ buffer' = <<>>
  /\ events' = <<>>
  /\ pc' = "running"
  /\ streams' = OpenStreams(callArgs.promptChunks)
  /\ UNCHANGED <<callArgs, returned, heap, files, envVars, stages, loginProc, loginCode, config,
                 emitted, endVars, fileVars, resultVars>>

\* the pipe writes the next chunk of the prompt to the stdin of the subprocess
PromptWrite ==
  /\ Alive
  /\ mainProc = "running"
  /\ streams.prompt = "open"
  /\ streams.stdin = "open"
  /\ streams.unread > 0
  /\ streams' = [streams EXCEPT !.unread = @ - 1, !.written = @ + 1]
  /\ StreamFrame

\* the prompt stream ends: the pipe ends stdin
PromptEnd ==
  /\ Alive
  /\ streams.prompt = "open"
  /\ streams.unread = 0
  /\ streams' = [streams EXCEPT !.prompt = "ended", !.stdin = "ended"]
  /\ StreamFrame

\* mutant: an error of the prompt stream settles the run as a failure
PromptStreamErrorResolves ==
  /\ Alive
  /\ streams.prompt = "open"
  /\ streams' = [streams EXCEPT !.prompt = "errored", !.stdin = "ended",
                                !.logged = Append(@, "Error reading prompt file:")]
  /\ Resolve(1, "promptStream", events)
  /\ UNCHANGED <<callArgs, returned, heap, files, envVars, stages, procVars, streamVars,
                 closeCode, fileVars, resultVars>>

\* promptStream.on("error"): console.error and codexProcess.stdin.end()
PromptStreamError ==
  /\ Alive
  /\ streams.prompt = "open"
  /\ streams' = [streams EXCEPT !.prompt = "errored", !.stdin = "ended",
                                !.logged = Append(@, "Error reading prompt file:")]
  /\ StreamFrame

\* codexProcess.stdout.on("error"): console.error; the stream delivers no
\* data after its error
StdoutError ==
  /\ Alive
  /\ mainProc = "running"
  /\ streams.stdout = "open"
  /\ streams' = [streams EXCEPT !.stdout = "errored",
                                !.logged = Append(@, "Error reading Codex stdout:")]
  /\ StreamFrame

\* codexProcess.stdout.on("data") while the stream is open
StreamData(chunk) ==
  /\ streams.stdout = "open"
  /\ StdoutData(chunk)

NextStreams ==
  \/ SpawnAndPipe
  \/ PromptWrite
  \/ PromptEnd
  \/ PromptStreamError
  \/ StdoutError
  \/ \E chunk \in Chunks : StreamData(chunk)
  \/ \E code \in CloseCodes : ProcClose(code)
  \/ ProcError
  \/ \E ok \in BOOLEAN : WriteFileDone(ok)

SpecStreams == InitStreams /\ [][NextStreams]_vars

OccurrencesOf(words, flag) ==
  {i \in 1..Len(words) : StartsWithDashes(words[i]) /\ FlagOf(words[i]) = flag}

\* the words right after the flag word at i, up to the next flag word
GroupAt(words, i) ==
  PickFrom(words, {j \in (i + 1)..Len(words) :
                     \A k \in (i + 1)..j : ~StartsWithDashes(words[k])}, 1)

\* the last place where the flag stands with no word after it, 0 if none
LastBare(words, flag) ==
  LET bare == {i \in OccurrencesOf(words, flag) : GroupAt(words, i) = <<>>}
  IN  IF bare = {} THEN 0 ELSE CHOOSE i \in bare : \A k \in bare : k <= i

\* the groups of the flag after place `from`, one after the other
GroupsAfter(words, flag, from) ==
  PickFrom(words, {j \in 1..Len(words) :
                     /\ ~StartsWithDashes(words[j])
                     /\ OwnerOf(words, j) > from
                     /\ FlagOf(words[OwnerOf(words, j)]) = flag}, 1)

AllFlags(words) == {FlagOf(words[i]) : i \in {k \in 1..Len(words) : StartsWithDashes(words[k])}}

RECURSIVE SplitAt(_, _)
SplitAt(content, cuts) ==
  IF content = <<>> THEN <<>>
  ELSE LET inside == {c \in cuts : c < Len(content)}
           first == IF inside = {} THEN Len(content)
                    ELSE CHOOSE c \in inside : \A d \in inside : c <= d
       IN  <<SubSeq(content, 1, first)>>
             \o SplitAt(SubSeq(content, first + 1, Len(content)), {c - first : c \in inside \ {first}})

\* every way to cut the content into chunks
ChunkingsOf(content) == {SplitAt(content, cuts) : cuts \in SUBSET (1..(Len(content) - 1))}

RECURSIVE Flatten(_)
Flatten(list) == IF list = <<>> THEN <<>> ELSE Head(list) \o Flatten(Tail(list))

\* runCodex from the spawn on; the main subprocess writes a content of up
\* to MaxOut characters, and stdout delivers it in the chunks of callArgs
InitChunks ==
  /\ apiKey = Undefined
  /\ chatgptAuth = Undefined
  /\ codexArgs = Undefined
  /\ InitRest
  /\ returned = <<>>
  /\ heap = <<>>
  /\ files = <<>>
  /\ pc = "stat"
  /\ \E content \in SeqsUpTo(OutChars, MaxOut) :
       \E chunking \in ChunkingsOf(content) : callArgs = [chunks |-> chunking]

\* codexProcess.stdout.on("data") with the next chunk
NextChunk ==
  \E i \in 1..Len(callArgs.chunks) :
    /\ emitted = Flatten(SubSeq(callArgs.chunks, 1, i - 1))
    /\ StdoutData(callArgs.chunks[i])

NextChunks ==
  \/ SpawnMain
  \/ NextChunk
  \/ \E code \in CloseCodes : ProcClose(code)
  \/ ProcError
  \/ \E ok \in BOOLEAN : WriteFileDone(ok)

SpecChunks == InitChunks /\ [][NextChunks]_vars

\* ---------------------------------------------------------------- C25
\* the buffer and the events after the 'data' handler has run on each of
\* the chunks, from st on
RECURSIVE AfterChunks(_, _)
AfterChunks(chunking, st) ==
  IF chunking = <<>> THEN st
  ELSE AfterChunks(Tail(chunking), flushBuffer(st.buffer \o Head(chunking), st.events, FALSE))

FreshState == [buffer |-> <<>>, events |-> <<>>]

\* the events after the chunks and the final flush of the 'close' handler
EventsVia(chunking) ==
  LET st == AfterChunks(chunking, FreshState)
  IN  flushBuffer(st.buffer, st.events, TRUE).events

\* C25: for the content stdout has delivered so far in the chunks of this
\* run, every other way to cut the same content into chunks gives the same
\* buffer and the same events, and after 'close' the same events; and the
\* buffer never holds a newline once a chunk is handled.
C25_ChunkingIndependent ==
  /\ IndexOfNewline(buffer) = 0
  /\ mainProc = "running" =>
       \A other \in ChunkingsOf(emitted) :
         AfterChunks(other, FreshState) = [buffer |-> buffer, events |-> events]
  /\ (mainProc = "closed" /\ resolvedBy = "close") =>
       \A other \in ChunkingsOf(emitted) : EventsVia(other) = events

\* x, then newline and 1: the first chunk ends inside a line, the second
\* ends one line and begins the next
C25_Witness ==
  /\ mainProc = "closed"
  /\ resolvedBy = "close"
  /\ callArgs.chunks = << <<"x">>, <<"\n", "1">> >>
  /\ emitted = <<"x", "\n", "1">>
  /\ events = <<TextEvent(<<"x">>), JsonNumber(<<"1">>)>>

BothFired == mainProc = "closed" /\ resolvedBy = "error"

C28_AccumulatedNeverLost ==
  pc = "parsed" =>
    LET words == ClaudeWords
    IN  \A kind \in ToolKinds :
          LET given == ItemsOf(ValuesOf(words, {CamelOf(kind), HyphenOf(kind)}))
              list == ListOf(returned[kind])
          IN  \A i \in 1..Len(given) : \E j \in 1..Len(list) : list[j] = given[i]

\* ---------------------------------------------------------------- C29
\* C29: no entry of the tool lists parseSdkOptions returns is empty or
\* white space only, whatever the argument string and the direct lists are.
C29_NoEmptyToolEntry ==
  pc = "parsed" =>
    \A kind \in ToolKinds :
      LET list == ListOf(returned[kind])
      IN  \A j \in 1..Len(list) : Trim(list[j]) # <<>>

\* ------------------------------------------- deepMerge with special pairs
\* deepMerge(A, {}), deepMerge({}, A), deepMerge(A, A) with one object given
\* twice, and deepMerge(A, A') with A' a second object equal to A
InitSelfMerge ==
  /\ InitLibrary
  /\ pc = "deepMerge"
  /\ \E n \in 0..MaxNodes :
       \E A \in TablesBy[n] :
         LET first == Alloc(<<>>, A)
             empty == Alloc(first.heap, EmptyTable)
             second == Alloc(first.heap, A)
         IN  \/ /\ heap = empty.heap
                /\ callArgs = [base |-> first.ref, override |-> empty.ref,
                               snapshot |-> [base |-> A, override |-> EmptyTable]]
             \/ /\ heap = empty.heap
                /\ callArgs = [base |-> empty.ref, override |-> first.ref,
                               snapshot |-> [base |-> EmptyTable, override |-> A]]
             \/ /\ heap = first.heap
                /\ callArgs = [base |-> first.ref, override |-> first.ref,
                               snapshot |-> [base |-> A, override |-> A]]
             \/ /\ heap = second.heap
                /\ callArgs = [base |-> first.ref, override |-> second.ref,
                               snapshot |-> [base |-> A, override |-> A]]

\* the special pairs and every pair of documents of up to MaxNodes values
InitMergeLaws == InitSelfMerge \/ InitDeepMerge

SpecMergeLaws == InitMergeLaws /\ [][NextDeepMerge]_vars

\* ---------------------------------------------------------------- C30
\* C30: the document deepMerge returns is base when override is the empty
\* document, override when base is the empty document, and base when
\* override equals base (the same object or an equal one); and its
\* top-level keys are the keys of base and the keys of override.
C30_IdentityAndIdempotent ==
  pc = "merged" =>
    LET A == callArgs.snapshot.base
        B == callArgs.snapshot.override
    IN  /\ B = EmptyTable => MergedDocument = A
        /\ A = EmptyTable => MergedDocument = B
        /\ A = B => MergedDocument = A
        /\ DOMAIN MergedDocument = DOMAIN A \cup DOMAIN B

\* one object {k: {k: 1, m: [1]}, m: date} given as base and as override
C30_Witness ==
  /\ pc = "merged"
  /\ callArgs.base = callArgs.override
  /\ callArgs.snapshot.base =
       ("k" :> TableValue(("k" :> Scalar("1")) @@ ("m" :> ArrayValue))) @@ ("m" :> DateValue)
  /\ MergedDocument = callArgs.snapshot.base
  /\ returned # callArgs.base

====
